---- MODULE Spec2Model ----
(***************************************************************************)
(* WattNode marketplace core (src/api_nodes.py): node registration, job    *)
(* routing, claim / complete / cancel, lazy expiry and node payout.        *)
(*                                                                         *)
(* The two JSON files (NODES_FILE, JOBS_FILE) are the shared state.  Every *)
(* handler is translated twice from the same pure operators:               *)
(*   - Spec      runs each handler as one atomic action (requests served   *)
(*               one at a time);                                           *)
(*   - SpecConc  runs NumProcs request handlers whose file loads, external *)
(*               calls and file saves interleave (no locking in the code). *)
(* Opaque pass-through fields that no code path reads (name, endpoint,     *)
(* payload, requester_wallet, registered_at, stake_amount) are left out.   *)
(* Time is in whole seconds; second-of-minute is now % 60.                 *)
(***************************************************************************)
EXTENDS Integers, Sequences, FiniteSets, TLC

\* ------------------------------------------------------------- bounds
MaxNodes == 2          \* node ids generated: 1..MaxNodes
MaxJobs == 1           \* job ids generated: 1..MaxJobs
MaxCompletions == 2    \* successful complete_job commits in one behaviour
NumProcs == 2          \* concurrent request handlers (SpecConc)

\* ---------------------------------------------------------- constants
HEARTBEAT_TIMEOUT == 120
JOB_TIMEOUT == 30
NODE_SHARE == 70
TREASURY_SHARE == 20
BURN_SHARE == 10
PAGE_SIZE == 5

NoneId == 0            \* Python None / a missing id in a request body
NoTime == -1           \* a timestamp key not yet present in the record

VALID_CAPS == {"scrape", "inference"}

\* ------------------------------------------------------- input domains
Instants == {0, 31}
\* register_node request bodies: three well-formed bodies with distinct
\* wallets or stake proofs, one reusing a stake proof under another wallet,
\* and one malformed body for each validation rule
RegisterInputs ==
    {[wallet |-> "w1", caps |-> {"scrape"}, stake |-> "s1"],
     [wallet |-> "w2", caps |-> {"inference"}, stake |-> "s2"],
     [wallet |-> "w2", caps |-> {"scrape"}, stake |-> "s2"],
     [wallet |-> "w2", caps |-> {"scrape"}, stake |-> "s1"],
     [wallet |-> "", caps |-> {"scrape"}, stake |-> "s1"],
     [wallet |-> "w1", caps |-> {"scrape"}, stake |-> ""],
     [wallet |-> "w1", caps |-> {}, stake |-> "s1"],
     [wallet |-> "w1", caps |-> {"scrape", "gpu"}, stake |-> "s1"]}
JobTypes == {"scrape"}
Payments == {1, 1000}
Results == {"None", "r1"}
NodeIdInputs == 0..MaxNodes
JobIdInputs == 1..MaxJobs
Procs == 1..NumProcs

VARIABLES
    nodesFile,    \* NODES_FILE: node_id -> node record
    jobsFile,     \* JOBS_FILE: [jobs, pending, completed]
    now,          \* the wall clock, seconds
    nextNode,     \* next fresh node id (uuid4)
    nextJob,      \* next fresh job id (uuid4)
    pays,         \* log of send_node_payout invocations
    completions,  \* number of complete_job commits so far
    last,         \* Spec: the last request served and its response
    proc,         \* SpecConc: each handler's position and locals
    subsFile,     \* SUBMISSIONS_FILE: the list of task submissions
    nextSub       \* next fresh submission id (uuid4)

vars == <<nodesFile, jobsFile, now, nextNode, nextJob, pays, completions, last, proc,
          subsFile, nextSub>>

\* ------------------------------------------------------------ helpers
EmptyNodes == [n \in {} |-> 0]
EmptyJobs == [jobs |-> [j \in {} |-> 0], pending |-> <<>>, completed |-> <<>>]

Resp(op, code, err, jobs) ==
    [op |-> op, code |-> code, err |-> err, jobs |-> jobs]

InSeq(x, s) == \E i \in 1..Len(s) : s[i] = x

\* list.remove(x): drops the first occurrence
RECURSIVE RemoveFirst(_, _)
RemoveFirst(s, x) ==
    IF s = <<>> THEN <<>>
    ELSE IF Head(s) = x THEN Tail(s)
    ELSE <<Head(s)>> \o RemoveFirst(Tail(s), x)

\* ------------------------------------------------------ reward split
\* mutant: the node receives the whole payment
NodeReward_Whole(total) == total

NodeReward(total) == (total * NODE_SHARE) \div 100
TreasuryAmount(total) == (total * TREASURY_SHARE) \div 100
BurnAmount(total) == (total * BURN_SHARE) \div 100

\* ------------------------------------------------------------ liveness
\* mutant: a heartbeat exactly HEARTBEAT_TIMEOUT old still counts as recent
is_node_active_Inclusive(node, t) ==
    IF node.last_heartbeat = NoTime THEN FALSE
    ELSE (t - node.last_heartbeat) <= HEARTBEAT_TIMEOUT

is_node_active(node, t) ==
    IF node.last_heartbeat = NoTime THEN FALSE
    ELSE (t - node.last_heartbeat) < HEARTBEAT_TIMEOUT

\* mutant: the capability filter is missing
get_active_nodes_AnyCapability(nd, capability, t) ==
    {n \in DOMAIN nd : nd[n].status = "active" /\ is_node_active(nd[n], t)}

\* mutant: the heartbeat test is missing, the stored status decides
get_active_nodes_StatusOnly(nd, capability, t) ==
    {n \in DOMAIN nd : nd[n].status = "active" /\ capability \in nd[n].capabilities}

get_active_nodes(nd, capability, t) ==
    {n \in DOMAIN nd :
        /\ nd[n].status = "active"
        /\ is_node_active(nd[n], t)
        /\ capability \in nd[n].capabilities}

\* ------------------------------------------------------- register_node
RegisterValidate(wallet, caps, stake_tx) ==
    IF wallet = "" THEN "wallet required"
    ELSE IF stake_tx = "" THEN "stake_tx required"
    ELSE IF caps = {} THEN "capabilities required"
    ELSE IF \E c \in caps : c \notin VALID_CAPS THEN "invalid capability"
    ELSE "ok"

\* mutant: the loop compares wallets only and never looks at stake_tx
RegisterDuplicate_WalletOnly(nd, wallet, stake_tx) ==
    IF \E n \in DOMAIN nd : nd[n].wallet = wallet THEN "wallet already registered"
    ELSE "ok"

RegisterDuplicate(nd, wallet, stake_tx) ==
    LET hits == {n \in DOMAIN nd : nd[n].wallet = wallet \/ nd[n].stake_tx = stake_tx}
    IN  IF hits = {} THEN "ok"
        ELSE LET n == CHOOSE m \in hits : \A k \in hits : m <= k
             IN  IF nd[n].wallet = wallet THEN "wallet already registered"
                 ELSE "stake_tx already used"

NewNode(wallet, caps, stake_tx, t) ==
    [wallet |-> wallet, capabilities |-> caps, stake_tx |-> stake_tx,
     last_heartbeat |-> t, jobs_completed |-> 0, jobs_failed |-> 0,
     total_earned |-> 0, status |-> "active"]

RegisterUpdate(nd, id, wallet, caps, stake_tx, t) ==
    (id :> NewNode(wallet, caps, stake_tx, t)) @@ nd

\* ------------------------------------------------------ node_heartbeat
HeartbeatCheck(nd, nid) ==
    IF nid = NoneId THEN "node_id required"
    ELSE IF nid \notin DOMAIN nd THEN "node not found"
    ELSE "ok"

\* mutant: the timestamp is written to every node of the registry
HeartbeatUpdate_AllNodes(nd, nid, t) ==
    [n \in DOMAIN nd |-> [nd[n] EXCEPT !.last_heartbeat = t]]

HeartbeatUpdate(nd, nid, t) == [nd EXCEPT ![nid].last_heartbeat = t]

\* ---------------------------------------------------------- create_job
NewJob(job_type, total, t) ==
    [type |-> job_type, total_payment |-> total,
     node_reward |-> NodeReward(total),
     treasury_amount |-> TreasuryAmount(total),
     burn_amount |-> BurnAmount(total),
     status |-> "pending", assigned_to |-> NoneId,
     created_at |-> t, expires_at |-> t + JOB_TIMEOUT,
     claimed_at |-> NoTime, completed_at |-> NoTime,
     result |-> "None", payout_status |-> "none"]

\* now.replace(second=now.second + JOB_TIMEOUT) raises ValueError unless the
\* new second is in 0..59
ReplaceSecondOk(t) == (t % 60) + JOB_TIMEOUT <= 59

CreateUpdate(jd, id, job_type, total, t) ==
    [jobs |-> (id :> NewJob(job_type, total, t)) @@ jd.jobs,
     pending |-> Append(jd.pending, id),
     completed |-> jd.completed]

\* ------------------------------------------------------- get_node_jobs
ListCheck(nd, nid) ==
    IF nid = NoneId THEN "node_id required"
    ELSE IF nid \notin DOMAIN nd THEN "node not found"
    ELSE IF nd[nid].status # "active" THEN "node not active"
    ELSE "ok"

TypeMatches(jd, caps, j) == j \in DOMAIN jd.jobs /\ jd.jobs[j].type \in caps

IsExpired(job, t) == t > job.expires_at

SweptIds(jd, caps, t) ==
    {j \in DOMAIN jd.jobs :
        InSeq(j, jd.pending) /\ TypeMatches(jd, caps, j) /\ IsExpired(jd.jobs[j], t)}

SweepUpdate(jd, caps, t) ==
    LET gone == SweptIds(jd, caps, t)
    IN  [jobs |-> [j \in DOMAIN jd.jobs |->
                     IF j \in gone THEN [jd.jobs[j] EXCEPT !.status = "expired"]
                     ELSE jd.jobs[j]],
         pending |-> SelectSeq(jd.pending, LAMBDA j : j \notin gone),
         completed |-> jd.completed]

Available(jd, caps, nid, t) ==
    SelectSeq(jd.pending,
              LAMBDA j : /\ TypeMatches(jd, caps, j)
                         /\ ~IsExpired(jd.jobs[j], t)
                         /\ (jd.jobs[j].assigned_to = NoneId
                             \/ jd.jobs[j].assigned_to = nid))

\* mutant: the whole list is returned
Page_Whole(s) == s

Page(s) == SubSeq(s, 1, IF Len(s) < PAGE_SIZE THEN Len(s) ELSE PAGE_SIZE)

\* ----------------------------------------------------------- claim_job
\* mutant: the assigned_to test is missing
ClaimCheck_NoOwnerTest(jd, j, nid) ==
    IF nid = NoneId THEN "node_id required"
    ELSE IF j \notin DOMAIN jd.jobs THEN "job not found"
    ELSE IF jd.jobs[j].status # "pending" THEN "job status"
    ELSE "ok"

ClaimCheck(jd, j, nid) ==
    IF nid = NoneId THEN "node_id required"
    ELSE IF j \notin DOMAIN jd.jobs THEN "job not found"
    ELSE IF jd.jobs[j].status # "pending" THEN "job status"
    ELSE IF jd.jobs[j].assigned_to # NoneId /\ jd.jobs[j].assigned_to # nid
         THEN "job assigned to another node"
    ELSE "ok"

\* mutant: a claim restarts the job's deadline
ClaimUpdate_ExtendsDeadline(jd, j, nid, t) ==
    [jd EXCEPT !.jobs[j].assigned_to = nid, !.jobs[j].claimed_at = t,
               !.jobs[j].expires_at = t + JOB_TIMEOUT]

ClaimUpdate(jd, j, nid, t) ==
    [jd EXCEPT !.jobs[j].assigned_to = nid, !.jobs[j].claimed_at = t]

\* -------------------------------------------------------- complete_job
\* mutant: the status == "completed" test is missing
CompleteCheck_NoCompletedGuard(jd, j, nid, result) ==
    IF nid = NoneId THEN "node_id required"
    ELSE IF result = "None" THEN "result required"
    ELSE IF j \notin DOMAIN jd.jobs THEN "job not found"
    ELSE IF jd.jobs[j].assigned_to # nid THEN "job not assigned to this node"
    ELSE "ok"

\* mutant: the assigned_to test is missing
CompleteCheck_NoAssignedTest(jd, j, nid, result) ==
    IF nid = NoneId THEN "node_id required"
    ELSE IF result = "None" THEN "result required"
    ELSE IF j \notin DOMAIN jd.jobs THEN "job not found"
    ELSE IF jd.jobs[j].status = "completed" THEN "job already completed"
    ELSE "ok"

CompleteCheck(jd, j, nid, result) ==
    IF nid = NoneId THEN "node_id required"
    ELSE IF result = "None" THEN "result required"
    ELSE IF j \notin DOMAIN jd.jobs THEN "job not found"
    ELSE IF jd.jobs[j].assigned_to # nid THEN "job not assigned to this node"
    ELSE IF jd.jobs[j].status = "completed" THEN "job already completed"
    ELSE "ok"

CompleteJobsUpdate(jd, j, result, t) ==
    [jobs |-> [jd.jobs EXCEPT ![j].status = "completed",
                              ![j].completed_at = t,
                              ![j].result = result],
     pending |-> IF InSeq(j, jd.pending) THEN RemoveFirst(jd.pending, j)
                 ELSE jd.pending,
     completed |-> Append(jd.completed, j)]

\* mutant: the node's counters are left as they were
CompleteNodesUpdate_NoCredit(nd, nid, reward, t) == nd

\* mutant: the completion credits the node without renewing its heartbeat
CompleteNodesUpdate_NoHeartbeat(nd, nid, reward, t) ==
    IF nid \in DOMAIN nd
    THEN [nd EXCEPT ![nid].jobs_completed = @ + 1,
                    ![nid].total_earned = @ + reward]
    ELSE nd

CompleteNodesUpdate(nd, nid, reward, t) ==
    IF nid \in DOMAIN nd
    THEN [nd EXCEPT ![nid].jobs_completed = @ + 1,
                    ![nid].total_earned = @ + reward,
                    ![nid].last_heartbeat = t]
    ELSE nd

PayDue(nd, nid, reward) ==
    nid \in DOMAIN nd /\ nd[nid].wallet # "" /\ reward > 0

PayoutUpdate(jd, j) == [jd EXCEPT !.jobs[j].payout_status = "paid"]

PayRecord(j, nd, nid, reward, ok) ==
    [job |-> j, to |-> nd[nid].wallet, amount |-> reward, ok |-> ok]

\* ---------------------------------------------------------- cancel_job
\* mutant: the record is marked cancelled but its id stays in the pending list
CancelUpdate_KeepsIndex(jd, j) ==
    [jobs |-> IF j \in DOMAIN jd.jobs
              THEN [jd.jobs EXCEPT ![j].status = "cancelled"]
              ELSE jd.jobs,
     pending |-> jd.pending,
     completed |-> jd.completed]

CancelUpdate(jd, j) ==
    [jobs |-> IF j \in DOMAIN jd.jobs
              THEN [jd.jobs EXCEPT ![j].status = "cancelled"]
              ELSE jd.jobs,
     pending |-> IF InSeq(j, jd.pending) THEN RemoveFirst(jd.pending, j)
                 ELSE jd.pending,
     completed |-> jd.completed]

\* ---------------------------------------------------- response classes
\* mutant: the handler answers 409 where it answers success
ErrCode_ConflictOnSuccess(err) ==
    IF err = "ok" THEN 409 ELSE 400

ErrCode(err) ==
    CASE err = "ok" -> 200
      [] err \in {"wallet required", "stake_tx required", "capabilities required",
                  "invalid capability", "stake verification failed",
                  "node_id required", "result required"} -> 400
      [] err \in {"node not active", "job not assigned to this node"} -> 403
      [] err \in {"node not found", "job not found"} -> 404
      [] err \in {"wallet already registered", "stake_tx already used",
                  "job status", "job assigned to another node",
                  "job already completed"} -> 409
      [] OTHER -> 500

\* =====================================================================
\* Spec: requests served one at a time, each handler one atomic action
\* =====================================================================
IdleProc ==
    [pc |-> "idle", op |-> "none", job |-> NoneId, node |-> NoneId,
     wallet |-> "", caps |-> {}, stake |-> "", result |-> "None",
     jtype |-> "", total |-> 0, t |-> NoTime,
     jd |-> EmptyJobs, nd |-> EmptyNodes, sd |-> <<>>, task |-> 0, code |-> 0,
     err |-> "", reqs |-> 0, timeout |-> 0, elapsed |-> 0]

Init ==
    /\ nodesFile = EmptyNodes
    /\ jobsFile = EmptyJobs
    /\ now = 0
    /\ nextNode = 1
    /\ nextJob = 1
    /\ pays = <<>>
    /\ completions = 0
    /\ last = Resp("init", 0, "", <<>>)
    /\ proc = [p \in Procs |-> IdleProc]
    /\ subsFile = <<>>
    /\ nextSub = 1

\* the clock moves on between requests
Tick ==
    /\ \E t \in Instants : t > now /\ now' = t
    /\ UNCHANGED <<nodesFile, jobsFile, nextNode, nextJob, pays, completions, last, proc, subsFile, nextSub>>

\* register_node; valid is the verdict of verify_stake
Register(wallet, caps, stake_tx, valid) ==
    LET v == RegisterValidate(wallet, caps, stake_tx)
        d == RegisterDuplicate(nodesFile, wallet, stake_tx)
        err == IF v # "ok" THEN v
               ELSE IF d # "ok" THEN d
               ELSE IF ~valid THEN "stake verification failed"
               ELSE "ok"
    IN  /\ err = "ok" => nextNode <= MaxNodes
        /\ IF err = "ok"
           THEN /\ nodesFile' = RegisterUpdate(nodesFile, nextNode, wallet, caps, stake_tx, now)
                /\ nextNode' = nextNode + 1
                /\ last' = Resp("register", 200, "", <<>>)
           ELSE /\ last' = Resp("register", ErrCode(err), err, <<>>)
                /\ UNCHANGED <<nodesFile, nextNode>>
        /\ UNCHANGED <<jobsFile, now, nextJob, pays, completions, proc, subsFile, nextSub>>

\* node_heartbeat
Heartbeat(nid) ==
    LET err == HeartbeatCheck(nodesFile, nid)
    IN  /\ IF err = "ok"
           THEN nodesFile' = HeartbeatUpdate(nodesFile, nid, now)
           ELSE UNCHANGED nodesFile
        /\ last' = Resp("heartbeat", ErrCode(err), err, <<>>)
        /\ UNCHANGED <<jobsFile, now, nextNode, nextJob, pays, completions, proc, subsFile, nextSub>>

\* get_node_jobs
ListAvailable(nid) ==
    LET err == ListCheck(nodesFile, nid)
    IN  /\ IF err = "ok"
           THEN LET caps == nodesFile[nid].capabilities
                    swept == SweepUpdate(jobsFile, caps, now)
                IN  /\ jobsFile' = swept
                    /\ nodesFile' = HeartbeatUpdate(nodesFile, nid, now)
                    /\ last' = Resp("list", 200, "",
                                    Page(Available(jobsFile, caps, nid, now)))
           ELSE /\ last' = Resp("list", ErrCode(err), err, <<>>)
                /\ UNCHANGED <<jobsFile, nodesFile>>
        /\ UNCHANGED <<now, nextNode, nextJob, pays, completions, proc, subsFile, nextSub>>

\* create_job
CreateJob(job_type, total) ==
    /\ IF get_active_nodes(nodesFile, job_type, now) = {}
       THEN /\ last' = Resp("create", 0, "no_active_nodes", <<>>)
            /\ UNCHANGED <<jobsFile, nextJob>>
       ELSE IF ~ReplaceSecondOk(now)
       THEN /\ last' = Resp("create", 500, "ValueError", <<>>)
            /\ UNCHANGED <<jobsFile, nextJob>>
       ELSE /\ nextJob <= MaxJobs
            /\ jobsFile' = CreateUpdate(jobsFile, nextJob, job_type, total, now)
            /\ nextJob' = nextJob + 1
            /\ last' = Resp("create", 0, "routed", <<>>)
    /\ UNCHANGED <<nodesFile, now, nextNode, pays, completions, proc, subsFile, nextSub>>

\* claim_job
ClaimJob(j, nid) ==
    LET err == ClaimCheck(jobsFile, j, nid)
    IN  /\ IF err = "ok"
           THEN jobsFile' = ClaimUpdate(jobsFile, j, nid, now)
           ELSE UNCHANGED jobsFile
        /\ last' = Resp("claim", ErrCode(err), err, <<>>)
        /\ UNCHANGED <<nodesFile, now, nextNode, nextJob, pays, completions, proc, subsFile, nextSub>>

\* complete_job; payok is the outcome of send_node_payout
CompleteJob(j, nid, result, payok) ==
    LET err == CompleteCheck(jobsFile, j, nid, result)
    IN  /\ err = "ok" => completions < MaxCompletions
        /\ IF err = "ok"
           THEN LET jd1 == CompleteJobsUpdate(jobsFile, j, result, now)
                    reward == jd1.jobs[j].node_reward
                    nd1 == CompleteNodesUpdate(nodesFile, nid, reward, now)
                    due == PayDue(nd1, nid, reward)
                IN  /\ nodesFile' = nd1
                    /\ pays' = IF due THEN Append(pays, PayRecord(j, nd1, nid, reward, payok))
                               ELSE pays
                    /\ jobsFile' = IF due /\ payok THEN PayoutUpdate(jd1, j) ELSE jd1
                    /\ completions' = completions + 1
                    /\ last' = Resp("complete", 200,
                                    IF due THEN (IF payok THEN "paid" ELSE "payout_error")
                                    ELSE "pending", <<>>)
           ELSE /\ last' = Resp("complete", ErrCode(err), err, <<>>)
                /\ UNCHANGED <<nodesFile, jobsFile, pays, completions>>
        /\ UNCHANGED <<now, nextNode, nextJob, proc, subsFile, nextSub>>

\* cancel_job
CancelJob(j) ==
    /\ jobsFile' = CancelUpdate(jobsFile, j)
    /\ last' = Resp("cancel", 0, "", <<>>)
    /\ UNCHANGED <<nodesFile, now, nextNode, nextJob, pays, completions, proc, subsFile, nextSub>>

Next ==
    \/ Tick
    \/ \E r \in RegisterInputs, v \in BOOLEAN :
          Register(r.wallet, r.caps, r.stake, v)
    \/ \E n \in NodeIdInputs : Heartbeat(n)
    \/ \E n \in NodeIdInputs : ListAvailable(n)
    \/ \E ty \in JobTypes, total \in Payments : CreateJob(ty, total)
    \/ \E j \in JobIdInputs, n \in NodeIdInputs : ClaimJob(j, n)
    \/ \E j \in JobIdInputs, n \in NodeIdInputs, r \in Results, ok \in BOOLEAN :
          CompleteJob(j, n, r, ok)
    \/ \E j \in JobIdInputs : CancelJob(j)

Spec == Init /\ [][Next]_vars

\* =====================================================================
\* SpecConc: NumProcs handlers run at once.  A step is one file load (with
\* the checks made on the snapshot), one external call, or one file save.
\* =====================================================================
MaxReqs == 3           \* requests one handler thread serves in a behaviour

Ready(p) == proc[p].pc \in {"idle", "done"} /\ proc[p].reqs < MaxReqs

Begin(p, op) == [IdleProc EXCEPT !.op = op, !.reqs = proc[p].reqs + 1]

\* the handler returns: its response stays visible, its locals are dropped
Finish(rec, code, err) ==
    [IdleProc EXCEPT !.pc = "done", !.op = rec.op, !.job = rec.job,
                     !.node = rec.node, !.wallet = rec.wallet,
                     !.stake = rec.stake, !.reqs = rec.reqs,
                     !.code = code, !.err = err]

Files == <<nodesFile, jobsFile>>
Ghosts == <<now, nextNode, nextJob, pays, completions, last, subsFile, nextSub>>

\* ---- register_node
RegBegin(p, wallet, caps, stake_tx) ==
    /\ Ready(p)
    /\ LET v == RegisterValidate(wallet, caps, stake_tx)
           d == RegisterDuplicate(nodesFile, wallet, stake_tx)
           err == IF v # "ok" THEN v ELSE d
           rec == [Begin(p, "register") EXCEPT !.wallet = wallet, !.caps = caps,
                                               !.stake = stake_tx]
       IN  proc' = [proc EXCEPT ![p] =
                       IF err # "ok" THEN Finish(rec, ErrCode(err), err)
                       ELSE [rec EXCEPT !.pc = "reg_verify", !.nd = nodesFile]]
    /\ UNCHANGED <<Files, Ghosts>>

RegVerify(p, valid) ==
    /\ proc[p].pc = "reg_verify"
    /\ proc' = [proc EXCEPT ![p] =
                   IF valid THEN [@ EXCEPT !.pc = "reg_save"]
                   ELSE Finish(@, 400, "stake verification failed")]
    /\ UNCHANGED <<Files, Ghosts>>

RegSave(p) ==
    /\ proc[p].pc = "reg_save"
    /\ nextNode <= MaxNodes
    /\ nodesFile' = RegisterUpdate(proc[p].nd, nextNode, proc[p].wallet,
                                   proc[p].caps, proc[p].stake, now)
    /\ nextNode' = nextNode + 1
    /\ proc' = [proc EXCEPT ![p] = Finish([@ EXCEPT !.node = nextNode], 200, "")]
    /\ UNCHANGED <<jobsFile, now, nextJob, pays, completions, last, subsFile, nextSub>>

\* ---- node_heartbeat
HbBegin(p, nid) ==
    /\ Ready(p)
    /\ LET err == HeartbeatCheck(nodesFile, nid)
           rec == [Begin(p, "heartbeat") EXCEPT !.node = nid]
       IN  proc' = [proc EXCEPT ![p] =
                       IF err # "ok" THEN Finish(rec, ErrCode(err), err)
                       ELSE [rec EXCEPT !.pc = "hb_save", !.nd = nodesFile]]
    /\ UNCHANGED <<Files, Ghosts>>

HbSave(p) ==
    /\ proc[p].pc = "hb_save"
    /\ nodesFile' = HeartbeatUpdate(proc[p].nd, proc[p].node, now)
    /\ proc' = [proc EXCEPT ![p] = Finish(@, 200, "")]
    /\ UNCHANGED <<jobsFile, Ghosts>>

\* ---- get_node_jobs
ListBegin(p, nid) ==
    /\ Ready(p)
    /\ LET err == ListCheck(nodesFile, nid)
           rec == [Begin(p, "list") EXCEPT !.node = nid]
       IN  proc' = [proc EXCEPT ![p] =
                       IF err # "ok" THEN Finish(rec, ErrCode(err), err)
                       ELSE [rec EXCEPT !.pc = "list_load_jobs", !.nd = nodesFile]]
    /\ UNCHANGED <<Files, Ghosts>>

ListLoadJobs(p) ==
    /\ proc[p].pc = "list_load_jobs"
    /\ proc' = [proc EXCEPT ![p] = [@ EXCEPT !.pc = "list_save_jobs",
                                             !.jd = jobsFile, !.t = now]]
    /\ UNCHANGED <<Files, Ghosts>>

ListSaveJobs(p) ==
    /\ proc[p].pc = "list_save_jobs"
    /\ jobsFile' = SweepUpdate(proc[p].jd, proc[p].nd[proc[p].node].capabilities,
                               proc[p].t)
    /\ proc' = [proc EXCEPT ![p] = [@ EXCEPT !.pc = "list_save_nodes", !.jd = EmptyJobs]]
    /\ UNCHANGED <<nodesFile, Ghosts>>

ListSaveNodes(p) ==
    /\ proc[p].pc = "list_save_nodes"
    /\ nodesFile' = HeartbeatUpdate(proc[p].nd, proc[p].node, proc[p].t)
    /\ proc' = [proc EXCEPT ![p] = Finish(@, 200, "")]
    /\ UNCHANGED <<jobsFile, Ghosts>>

\* ---- create_job
CreateBegin(p, job_type, total) ==
    /\ Ready(p)
    /\ LET rec == [Begin(p, "create") EXCEPT !.jtype = job_type, !.total = total]
       IN  IF get_active_nodes(nodesFile, job_type, now) = {}
           THEN /\ proc' = [proc EXCEPT ![p] = Finish(rec, 0, "no_active_nodes")]
                /\ UNCHANGED nextJob
           ELSE IF ~ReplaceSecondOk(now)
           THEN /\ proc' = [proc EXCEPT ![p] = Finish(rec, 500, "ValueError")]
                /\ UNCHANGED nextJob
           ELSE /\ nextJob <= MaxJobs
                /\ nextJob' = nextJob + 1
                /\ proc' = [proc EXCEPT ![p] =
                               [rec EXCEPT !.pc = "create_load", !.job = nextJob,
                                           !.t = now]]
    /\ UNCHANGED <<Files, now, nextNode, pays, completions, last, subsFile, nextSub>>

CreateLoad(p) ==
    /\ proc[p].pc = "create_load"
    /\ proc' = [proc EXCEPT ![p] = [@ EXCEPT !.pc = "create_save", !.jd = jobsFile]]
    /\ UNCHANGED <<Files, Ghosts>>

CreateSave(p) ==
    /\ proc[p].pc = "create_save"
    /\ jobsFile' = CreateUpdate(proc[p].jd, proc[p].job, proc[p].jtype,
                                proc[p].total, proc[p].t)
    /\ proc' = [proc EXCEPT ![p] = Finish(@, 0, "routed")]
    /\ UNCHANGED <<nodesFile, Ghosts>>

\* ---- claim_job
ClaimBegin(p, j, nid) ==
    /\ Ready(p)
    /\ LET err == ClaimCheck(jobsFile, j, nid)
           rec == [Begin(p, "claim") EXCEPT !.job = j, !.node = nid]
       IN  proc' = [proc EXCEPT ![p] =
                       IF err # "ok" THEN Finish(rec, ErrCode(err), err)
                       ELSE [rec EXCEPT !.pc = "claim_save", !.jd = jobsFile]]
    /\ UNCHANGED <<Files, Ghosts>>

ClaimSave(p) ==
    /\ proc[p].pc = "claim_save"
    /\ jobsFile' = ClaimUpdate(proc[p].jd, proc[p].job, proc[p].node, now)
    /\ proc' = [proc EXCEPT ![p] = Finish(@, 200, "")]
    /\ UNCHANGED <<nodesFile, Ghosts>>

\* ---- complete_job
CompBegin(p, j, nid, result) ==
    /\ Ready(p)
    /\ LET err == CompleteCheck(jobsFile, j, nid, result)
           rec == [Begin(p, "complete") EXCEPT !.job = j, !.node = nid,
                                               !.result = result]
       IN  proc' = [proc EXCEPT ![p] =
                       IF err # "ok" THEN Finish(rec, ErrCode(err), err)
                       ELSE [rec EXCEPT !.pc = "comp_save_jobs", !.jd = jobsFile,
                                        !.t = now]]
    /\ UNCHANGED <<Files, Ghosts>>

\* mutant: the job update is not saved before the handler goes on
CompSaveJobs_NotSaved(p) ==
    /\ proc[p].pc = "comp_save_jobs"
    /\ completions < MaxCompletions
    /\ proc' = [proc EXCEPT ![p] =
                   [@ EXCEPT !.pc = "comp_load_nodes", !.jd = EmptyJobs,
                             !.total = proc[p].jd.jobs[proc[p].job].node_reward]]
    /\ completions' = completions + 1
    /\ UNCHANGED <<Files, now, nextNode, nextJob, pays, last, subsFile, nextSub>>

CompSaveJobs(p) ==
    /\ proc[p].pc = "comp_save_jobs"
    /\ completions < MaxCompletions
    /\ LET jd1 == CompleteJobsUpdate(proc[p].jd, proc[p].job, proc[p].result, proc[p].t)
       IN  /\ jobsFile' = jd1
           /\ proc' = [proc EXCEPT ![p] =
                          [@ EXCEPT !.pc = "comp_load_nodes", !.jd = EmptyJobs,
                                    !.total = jd1.jobs[proc[p].job].node_reward]]
    /\ completions' = completions + 1
    /\ UNCHANGED <<nodesFile, now, nextNode, nextJob, pays, last, subsFile, nextSub>>

CompLoadNodes(p) ==
    /\ proc[p].pc = "comp_load_nodes"
    /\ proc' = [proc EXCEPT ![p] =
                   IF proc[p].node \in DOMAIN nodesFile
                   THEN [@ EXCEPT !.pc = "comp_save_nodes", !.nd = nodesFile]
                   ELSE Finish(@, 200, "pending")]
    /\ UNCHANGED <<Files, Ghosts>>

CompSaveNodes(p) ==
    /\ proc[p].pc = "comp_save_nodes"
    /\ LET nd1 == CompleteNodesUpdate(proc[p].nd, proc[p].node, proc[p].total, proc[p].t)
       IN  /\ nodesFile' = nd1
           /\ proc' = [proc EXCEPT ![p] =
                          IF PayDue(nd1, proc[p].node, proc[p].total)
                          THEN [@ EXCEPT !.pc = "comp_pay", !.nd = EmptyNodes,
                                         !.wallet = nd1[proc[p].node].wallet]
                          ELSE Finish(@, 200, "pending")]
    /\ UNCHANGED <<jobsFile, Ghosts>>

CompPay(p, payok) ==
    /\ proc[p].pc = "comp_pay"
    /\ pays' = Append(pays, [job |-> proc[p].job, to |-> proc[p].wallet,
                             amount |-> proc[p].total, ok |-> payok])
    /\ proc' = [proc EXCEPT ![p] =
                   IF payok THEN [@ EXCEPT !.pc = "comp_load_paid"]
                   ELSE Finish(@, 200, "payout_error")]
    /\ UNCHANGED <<Files, now, nextNode, nextJob, completions, last, subsFile, nextSub>>

\* jobs_data["jobs"][job_id] raises KeyError when the reloaded file lacks the job
CompLoadPaid(p) ==
    /\ proc[p].pc = "comp_load_paid"
    /\ proc' = [proc EXCEPT ![p] =
                   IF proc[p].job \in DOMAIN jobsFile.jobs
                   THEN [@ EXCEPT !.pc = "comp_save_paid", !.jd = jobsFile]
                   ELSE Finish(@, 500, "KeyError")]
    /\ UNCHANGED <<Files, Ghosts>>

CompSavePaid(p) ==
    /\ proc[p].pc = "comp_save_paid"
    /\ jobsFile' = PayoutUpdate(proc[p].jd, proc[p].job)
    /\ proc' = [proc EXCEPT ![p] = Finish(@, 200, "paid")]
    /\ UNCHANGED <<nodesFile, Ghosts>>

\* ---- cancel_job
CancelBegin(p, j) ==
    /\ Ready(p)
    /\ proc' = [proc EXCEPT ![p] =
                   [Begin(p, "cancel") EXCEPT !.pc = "cancel_save", !.job = j,
                                              !.jd = jobsFile]]
    /\ UNCHANGED <<Files, Ghosts>>

CancelSave(p) ==
    /\ proc[p].pc = "cancel_save"
    /\ jobsFile' = CancelUpdate(proc[p].jd, proc[p].job)
    /\ proc' = [proc EXCEPT ![p] = Finish(@, 0, "")]
    /\ UNCHANGED <<nodesFile, Ghosts>>

NextConc ==
    \E p \in Procs :
        \/ \E r \in RegisterInputs : RegBegin(p, r.wallet, r.caps, r.stake)
        \/ \E v \in BOOLEAN : RegVerify(p, v)
        \/ RegSave(p)
        \/ \E n \in NodeIdInputs : HbBegin(p, n)
        \/ HbSave(p)
        \/ \E n \in NodeIdInputs : ListBegin(p, n)
        \/ ListLoadJobs(p)
        \/ ListSaveJobs(p)
        \/ ListSaveNodes(p)
        \/ \E ty \in JobTypes, total \in Payments : CreateBegin(p, ty, total)
        \/ CreateLoad(p)
        \/ CreateSave(p)
        \/ \E j \in JobIdInputs, n \in NodeIdInputs : ClaimBegin(p, j, n)
        \/ ClaimSave(p)
        \/ \E j \in JobIdInputs, n \in NodeIdInputs, r \in Results :
              CompBegin(p, j, n, r)
        \/ CompSaveJobs(p)
        \/ CompLoadNodes(p)
        \/ CompSaveNodes(p)
        \/ \E ok \in BOOLEAN : CompPay(p, ok)
        \/ CompLoadPaid(p)
        \/ CompSavePaid(p)
        \/ \E j \in JobIdInputs : CancelBegin(p, j)
        \/ CancelSave(p)

SpecConc == Init /\ [][NextConc]_vars

\* =====================================================================
\* SpecRace: the store is in a state the one-at-a-time program reaches
\* (nobody registered; or node 1 registered; or nodes 1 and 2 registered and
\* job 1 created at t = 0, unclaimed or claimed by node 1), and every handler
\* thread serves exactly one register, claim or complete request.
\* =====================================================================
Node1 == NewNode("w1", {"scrape"}, "s1", 0)
Node2 == NewNode("w2", {"inference"}, "s2", 0)

RaceNodes == {EmptyNodes, (1 :> Node1), (1 :> Node1) @@ (2 :> Node2)}

RaceJobs(nd) ==
    IF nd = EmptyNodes THEN {EmptyJobs}
    ELSE {EmptyJobs}
         \cup {CreateUpdate(EmptyJobs, 1, "scrape", total, 0) : total \in Payments}
         \cup {ClaimUpdate(CreateUpdate(EmptyJobs, 1, "scrape", total, 0), 1, 1, 0) :
                  total \in Payments}

InitRace ==
    /\ nodesFile \in RaceNodes
    /\ jobsFile \in RaceJobs(nodesFile)
    /\ now = 0
    /\ nextNode = Cardinality(DOMAIN nodesFile) + 1
    /\ nextJob = Cardinality(DOMAIN jobsFile.jobs) + 1
    /\ pays = <<>>
    /\ completions = 0
    /\ last = Resp("init", 0, "", <<>>)
    /\ proc = [p \in Procs |-> [IdleProc EXCEPT !.reqs = MaxReqs - 1]]
    /\ subsFile = <<>>
    /\ nextSub = 1

NextRace ==
    \E p \in Procs :
        \/ \E r \in RegisterInputs : RegBegin(p, r.wallet, r.caps, r.stake)
        \/ \E v \in BOOLEAN : RegVerify(p, v)
        \/ RegSave(p)
        \/ \E j \in JobIdInputs, n \in NodeIdInputs : ClaimBegin(p, j, n)
        \/ ClaimSave(p)
        \/ \E j \in JobIdInputs, n \in NodeIdInputs, r \in Results :
              CompBegin(p, j, n, r)
        \/ CompSaveJobs(p)
        \/ CompLoadNodes(p)
        \/ CompSaveNodes(p)
        \/ \E ok \in BOOLEAN : CompPay(p, ok)
        \/ CompLoadPaid(p)
        \/ CompSavePaid(p)

SpecRace == InitRace /\ [][NextRace]_vars

\* =====================================================================
\* SpecLive: the one-at-a-time program around the heartbeat timeout.  The
\* clock takes the instants 0, 119, 120 and 121; the registry starts empty or
\* holding a record without a last_heartbeat key (is_node_active reads it
\* with node.get and answers False).
\* =====================================================================
LiveInstants == {0, HEARTBEAT_TIMEOUT - 1, HEARTBEAT_TIMEOUT, HEARTBEAT_TIMEOUT + 1}

NoHeartbeatNode == [NewNode("w1", {"scrape"}, "s1", 0) EXCEPT !.last_heartbeat = NoTime]

InitLive ==
    /\ nodesFile \in {EmptyNodes, (1 :> NoHeartbeatNode)}
    /\ jobsFile = EmptyJobs
    /\ now = 0
    /\ nextNode = Cardinality(DOMAIN nodesFile) + 1
    /\ nextJob = 1
    /\ pays = <<>>
    /\ completions = 0
    /\ last = Resp("init", 0, "", <<>>)
    /\ proc = [p \in Procs |-> IdleProc]
    /\ subsFile = <<>>
    /\ nextSub = 1

TickLive ==
    /\ \E t \in LiveInstants : t > now /\ now' = t
    /\ UNCHANGED <<nodesFile, jobsFile, nextNode, nextJob, pays, completions, last, proc, subsFile, nextSub>>

NextLive ==
    \/ TickLive
    \/ \E r \in RegisterInputs, v \in BOOLEAN :
          Register(r.wallet, r.caps, r.stake, v)
    \/ \E n \in NodeIdInputs : Heartbeat(n)
    \/ \E n \in NodeIdInputs : ListAvailable(n)
    \/ \E ty \in JobTypes, total \in Payments : CreateJob(ty, total)

SpecLive == InitLive /\ [][NextLive]_vars

\* =====================================================================
\* SpecCrash: one handler in flight at a time, run step by step, and the
\* process may die between any two steps of a handler (the request is then
\* never answered and the files keep what was saved so far).
\* =====================================================================
Alone(p) == \A q \in Procs \ {p} : proc[q].pc \in {"idle", "done"}

Crash(p) ==
    /\ proc[p].pc \notin {"idle", "done"}
    /\ proc' = [proc EXCEPT ![p] = Finish(@, 0, "crashed")]
    /\ UNCHANGED <<Files, Ghosts>>

NextCrash ==
    \E p \in Procs :
        /\ Alone(p)
        /\ \/ \E r \in RegisterInputs : RegBegin(p, r.wallet, r.caps, r.stake)
           \/ \E v \in BOOLEAN : RegVerify(p, v)
           \/ RegSave(p)
           \/ \E ty \in JobTypes, total \in Payments : CreateBegin(p, ty, total)
           \/ CreateLoad(p)
           \/ CreateSave(p)
           \/ \E j \in JobIdInputs, n \in NodeIdInputs : ClaimBegin(p, j, n)
           \/ ClaimSave(p)
           \/ \E j \in JobIdInputs, n \in NodeIdInputs, r \in Results :
                 CompBegin(p, j, n, r)
           \/ CompSaveJobs(p)
           \/ CompLoadNodes(p)
           \/ CompSaveNodes(p)
           \/ \E ok \in BOOLEAN : CompPay(p, ok)
           \/ CompLoadPaid(p)
           \/ CompSavePaid(p)
           \/ \E j \in JobIdInputs : CancelBegin(p, j)
           \/ CancelSave(p)
           \/ Crash(p)

SpecCrash == Init /\ [][NextCrash]_vars

\* =====================================================================
\* SpecStore: as SpecRace (prepared stores, one request per handler thread)
\* but with every handler of the file: register, heartbeat, list, create,
\* claim, complete and cancel interleave step by step.
\* =====================================================================
SpecStore == InitRace /\ [][NextConc]_vars

\* =====================================================================
\* SpecSweep: as SpecStore, with the clock standing either at 0 or past the
\* deadline of the prepared job (created at t = 0), so that the sweep of
\* get_node_jobs takes part in the interleavings.
\* =====================================================================
InitSweep ==
    /\ nodesFile \in RaceNodes
    /\ jobsFile \in RaceJobs(nodesFile)
    /\ now \in Instants
    /\ nextNode = Cardinality(DOMAIN nodesFile) + 1
    /\ nextJob = Cardinality(DOMAIN jobsFile.jobs) + 1
    /\ pays = <<>>
    /\ completions = 0
    /\ last = Resp("init", 0, "", <<>>)
    /\ proc = [p \in Procs |-> [IdleProc EXCEPT !.reqs = MaxReqs - 1]]
    /\ subsFile = <<>>
    /\ nextSub = 1

SpecSweep == InitSweep /\ [][NextConc]_vars

\* =====================================================================
\* SpecPage: get_node_jobs on a job store with more pending jobs than one
\* page.  Nodes 1 ({scrape}) and 2 ({inference}) are registered and sent
\* their last heartbeat at t = 20; PageJobs scrape jobs were created at t = 0
\* or t = 20, some of them claimed at t = 20 by node 1 or node 2; the clock
\* stands at 20 and moves to 31, past the deadline of the jobs created at 0.
\* =====================================================================
PageJobs == PAGE_SIZE + 1
PageInstants == {20, 31}

PageShapes ==
    {[type |-> "scrape", at |-> 0, to |-> NoneId],
     [type |-> "scrape", at |-> 20, to |-> NoneId],
     [type |-> "scrape", at |-> 20, to |-> 1],
     [type |-> "scrape", at |-> 20, to |-> 2]}

PageJob(sh) ==
    IF sh.to = NoneId THEN NewJob(sh.type, 1000, sh.at)
    ELSE [NewJob(sh.type, 1000, sh.at) EXCEPT !.assigned_to = sh.to, !.claimed_at = 20]

PageStores ==
    {[jobs |-> [j \in 1..PageJobs |-> PageJob(f[j])],
      pending |-> [j \in 1..PageJobs |-> j],
      completed |-> <<>>] : f \in [1..PageJobs -> PageShapes]}

InitPage ==
    /\ nodesFile = HeartbeatUpdate(HeartbeatUpdate((1 :> Node1) @@ (2 :> Node2), 1, 20), 2, 20)
    /\ jobsFile \in PageStores
    /\ now = 20
    /\ nextNode = 3
    /\ nextJob = PageJobs + 1
    /\ pays = <<>>
    /\ completions = 0
    /\ last = Resp("init", 0, "", <<>>)
    /\ proc = [p \in Procs |-> IdleProc]
    /\ subsFile = <<>>
    /\ nextSub = 1

TickPage ==
    /\ \E t \in PageInstants : t > now /\ now' = t
    /\ UNCHANGED <<nodesFile, jobsFile, nextNode, nextJob, pays, completions, last, proc,
                   subsFile, nextSub>>

NextPage ==
    \/ TickPage
    \/ \E n \in NodeIdInputs : ListAvailable(n)
    \/ \E j \in JobIdInputs, n \in NodeIdInputs : ClaimJob(j, n)

SpecPage == InitPage /\ [][NextPage]_vars

\* =====================================================================
\* SpecWait: wait_for_job_result.  The producer's loop reads the clock,
\* loads the job store, and sleeps half a second; elapsed is its reading of
\* time.time() - start in sleep periods.  The job store is empty or holds
\* job 1, created at t = 0 and claimed by node 1; claim_job, complete_job and
\* cancel_job are served, one at a time, between the steps of the loop, and
\* every thread runs the loop at most once.
\* =====================================================================
WaitPollsPerSecond == 2
MaxWait == 1                   \* longest timeout argument, in seconds
WaitTimeouts == 1..MaxWait
SleepPeriods == {1, 2}         \* a sleep lasts one period or oversleeps

\* time.time() - start < timeout
WaitInTime(elapsed, timeout) == elapsed < timeout * WaitPollsPerSecond

\* mutant: a claimed job counts as a finished one
WaitObserved_Claimed(jd, j) ==
    j \in DOMAIN jd.jobs /\ jd.jobs[j].assigned_to # NoneId

\* job and job.get("status") == "completed"
WaitObserved(jd, j) ==
    j \in DOMAIN jd.jobs /\ jd.jobs[j].status = "completed"

WaitReturn(rec, err, result, node) ==
    [IdleProc EXCEPT !.pc = "done", !.op = rec.op, !.job = rec.job, !.t = rec.t,
                     !.timeout = rec.timeout, !.elapsed = rec.elapsed,
                     !.reqs = rec.reqs, !.err = err, !.result = result, !.node = node]

WaitBegin(p, j, timeout) ==
    /\ Ready(p)
    /\ proc' = [proc EXCEPT ![p] =
                   [Begin(p, "wait") EXCEPT !.pc = "wait_test", !.job = j, !.t = now,
                                            !.timeout = timeout]]
    /\ UNCHANGED <<Files, Ghosts>>

WaitTest(p) ==
    /\ proc[p].pc = "wait_test"
    /\ proc' = [proc EXCEPT ![p] =
                   IF WaitInTime(@.elapsed, @.timeout) THEN [@ EXCEPT !.pc = "wait_load"]
                   ELSE WaitReturn(@, "timeout", "None", NoneId)]
    /\ UNCHANGED <<Files, Ghosts>>

WaitLoad(p) ==
    /\ proc[p].pc = "wait_load"
    /\ proc' = [proc EXCEPT ![p] =
                   IF WaitObserved(jobsFile, @.job)
                   THEN WaitReturn(@, "success", jobsFile.jobs[@.job].result,
                                   jobsFile.jobs[@.job].assigned_to)
                   ELSE [@ EXCEPT !.pc = "wait_sleep"]]
    /\ UNCHANGED <<Files, Ghosts>>

\* time.sleep(0.5): the wall clock is at least start + elapsed afterwards
WaitSleep(p, d) ==
    /\ proc[p].pc = "wait_sleep"
    /\ LET e == proc[p].elapsed + d
           wall == proc[p].t + (e \div WaitPollsPerSecond)
       IN  /\ proc' = [proc EXCEPT ![p] = [@ EXCEPT !.pc = "wait_test", !.elapsed = e]]
           /\ now' = IF wall > now THEN wall ELSE now
    /\ UNCHANGED <<Files, nextNode, nextJob, pays, completions, last, subsFile, nextSub>>

WaitStores ==
    {EmptyJobs, ClaimUpdate(CreateUpdate(EmptyJobs, 1, "scrape", 1000, 0), 1, 1, 0)}

InitWait ==
    /\ nodesFile = (1 :> Node1) @@ (2 :> Node2)
    /\ jobsFile \in WaitStores
    /\ now = 0
    /\ nextNode = Cardinality(DOMAIN nodesFile) + 1
    /\ nextJob = Cardinality(DOMAIN jobsFile.jobs) + 1
    /\ pays = <<>>
    /\ completions = 0
    /\ last = Resp("init", 0, "", <<>>)
    /\ proc = [p \in Procs |-> [IdleProc EXCEPT !.reqs = MaxReqs - 1]]
    /\ subsFile = <<>>
    /\ nextSub = 1

WaitStep(p) ==
    \/ WaitTest(p)
    \/ WaitLoad(p)
    \/ \E d \in SleepPeriods : WaitSleep(p, d)

NextWait ==
    \/ \E p \in Procs, j \in JobIdInputs, timeout \in WaitTimeouts : WaitBegin(p, j, timeout)
    \/ \E p \in Procs : WaitTest(p)
    \/ \E p \in Procs : WaitLoad(p)
    \/ \E p \in Procs, d \in SleepPeriods : WaitSleep(p, d)
    \/ \E j \in JobIdInputs, n \in NodeIdInputs : ClaimJob(j, n)
    \/ \E j \in JobIdInputs, n \in NodeIdInputs, r \in Results, ok \in BOOLEAN :
          CompleteJob(j, n, r, ok)
    \/ \E j \in JobIdInputs : CancelJob(j)

\* the loop is straight-line code of a running thread: each of its steps is
\* eventually taken
SpecWait ==
    /\ InitWait
    /\ [][NextWait]_vars
    /\ \A p \in Procs : WF_vars(WaitStep(p))

\* =====================================================================
\* Task submissions (src/api_tasks.py): submit_task, approve_submission,
\* reject_submission over SUBMISSIONS_FILE.  The payout log `pays` records
\* the send_watt_payout calls, keyed by submission id.  Grok's confidence
\* (a float in 0..1) is counted in hundredths.
\* =====================================================================
MaxSubs == 2           \* submissions stored in one behaviour
MaxPays == 2           \* send_watt_payout calls in one behaviour

AUTO_APPROVE_CONFIDENCE == 80

TaskInputs == {1, 2}
TaskAmount(task_id) == 500 * task_id

\* request bodies of submit_task; len is len(wallet)
SubmitInputs ==
    {[result |-> "r1", wallet |-> "W1", len |-> 44],
     [result |-> "None", wallet |-> "W1", len |-> 44],
     [result |-> "r1", wallet |-> "", len |-> 0],
     [result |-> "r1", wallet |-> "Wshort", len |-> 31],
     [result |-> "r1", wallet |-> "Wlong", len |-> 51]}

\* verify_with_grok results
Verdicts ==
    {[pass |-> ps, confidence |-> c] :
        ps \in BOOLEAN, c \in {0, AUTO_APPROVE_CONFIDENCE - 1, AUTO_APPROVE_CONFIDENCE}}

\* send_watt_payout results (success, tx_signature or error_message)
QueuedMessage == "Queued for manual payout via dashboard"
PayoutOutcomes ==
    {[kind |-> "sent", success |-> TRUE, msg |-> "tx"],
     [kind |-> "queued", success |-> FALSE, msg |-> QueuedMessage],
     [kind |-> "failed", success |-> FALSE, msg |-> "Unknown RPC response"]}

\* "manual payout" in tx_or_error.lower(): the messages of
\* send_watt_payout that hold these words
MentionsManualPayout(msg) == msg \in {QueuedMessage}

SubmitValidate(result, wallet, len, found) ==
    IF result = "None" THEN "missing_result"
    ELSE IF wallet = "" THEN "missing_wallet"
    ELSE IF len < 32 \/ len > 50 THEN "invalid_wallet"
    ELSE IF ~found THEN "task_not_found"
    ELSE "ok"

\* mutant: the threshold itself does not auto-approve
AutoApproved_Above(verdict) ==
    verdict.pass /\ verdict.confidence > AUTO_APPROVE_CONFIDENCE

AutoApproved(verdict) ==
    verdict.pass /\ verdict.confidence >= AUTO_APPROVE_CONFIDENCE

SubmitStatus(verdict, outcome) ==
    IF AutoApproved(verdict)
    THEN IF outcome.success THEN "paid"
         ELSE IF MentionsManualPayout(outcome.msg) THEN "approved"
         ELSE "payout_failed"
    ELSE IF verdict.pass THEN "pending_review"
    ELSE "rejected"

NewSubmission(id, task_id, wallet, result, verdict, outcome) ==
    LET auto == AutoApproved(verdict)
        status == SubmitStatus(verdict, outcome)
    IN  [id |-> id, task_id |-> task_id, amount |-> TaskAmount(task_id),
         wallet |-> wallet, result |-> result, status |-> status,
         grok_review |-> verdict,
         tx_signature |-> IF status = "paid" THEN outcome.msg ELSE "",
         payout_note |-> IF auto /\ status = "approved"
                         THEN "Awaiting manual payout via dashboard" ELSE "",
         payout_error |-> IF status = "payout_failed" THEN outcome.msg ELSE "",
         approved_by |-> "", reject_reason |-> ""]

\* position of the first submission with this id and task id, 0 if none
FindSubmission(sd, task_id, sid) ==
    LET hits == {i \in 1..Len(sd) : sd[i].id = sid /\ sd[i].task_id = task_id}
    IN  IF hits = {} THEN 0 ELSE CHOOSE i \in hits : \A k \in hits : i <= k

\* mutant: a paid submission is not turned away
ReviewCheck_NoPaidTest(sd, task_id, sid) ==
    IF FindSubmission(sd, task_id, sid) = 0 THEN "submission_not_found" ELSE "ok"

\* the checks approve_submission and reject_submission share
ReviewCheck(sd, task_id, sid) ==
    LET i == FindSubmission(sd, task_id, sid)
    IN  IF i = 0 THEN "submission_not_found"
        ELSE IF sd[i].status = "paid" THEN "already_paid"
        ELSE "ok"

ReviewCode(err) ==
    CASE err = "ok" -> 200
      [] err = "already_paid" -> 400
      [] err = "submission_not_found" -> 404
      [] OTHER -> 500

ApproveAmount(sd, task_id, sid, found) ==
    IF found THEN TaskAmount(task_id)
    ELSE sd[FindSubmission(sd, task_id, sid)].amount

ApproveUpdate(sd, task_id, sid, tx) ==
    [sd EXCEPT ![FindSubmission(sd, task_id, sid)] =
        [@ EXCEPT !.status = "paid", !.tx_signature = tx, !.approved_by = "admin"]]

RejectUpdate(sd, task_id, sid) ==
    [sd EXCEPT ![FindSubmission(sd, task_id, sid)] =
        [@ EXCEPT !.status = "rejected", !.reject_reason = "Rejected by admin"]]

NodeSide == <<nodesFile, jobsFile, now, nextNode, nextJob, completions>>

\* submit_task; found is the answer of get_task_by_id, verdict that of
\* verify_with_grok, outcome that of send_watt_payout
SubmitTask(task_id, result, wallet, len, found, verdict, outcome) ==
    LET err == SubmitValidate(result, wallet, len, found)
    IN  /\ IF err # "ok"
           THEN /\ last' = Resp("submit", IF err = "task_not_found" THEN 404 ELSE 400,
                                err, <<>>)
                /\ UNCHANGED <<subsFile, nextSub, pays>>
           ELSE LET sub == NewSubmission(nextSub, task_id, wallet, result, verdict, outcome)
                IN  /\ nextSub <= MaxSubs
                    /\ AutoApproved(verdict) => Len(pays) < MaxPays
                    /\ pays' = IF AutoApproved(verdict)
                               THEN Append(pays, [job |-> nextSub, to |-> wallet,
                                                  amount |-> TaskAmount(task_id),
                                                  ok |-> outcome.success])
                               ELSE pays
                    /\ subsFile' = Append(subsFile, sub)
                    /\ nextSub' = nextSub + 1
                    /\ last' = Resp("submit", 200, sub.status, <<>>)
        /\ UNCHANGED <<NodeSide, proc>>

\* approve_submission
ApproveSubmission(task_id, sid, found, outcome) ==
    LET err == ReviewCheck(subsFile, task_id, sid)
    IN  /\ IF err # "ok"
           THEN /\ last' = Resp("approve", ReviewCode(err), err, <<>>)
                /\ UNCHANGED <<subsFile, pays>>
           ELSE /\ Len(pays) < MaxPays
                /\ pays' = Append(pays,
                       [job |-> sid, to |-> subsFile[FindSubmission(subsFile, task_id, sid)].wallet,
                        amount |-> ApproveAmount(subsFile, task_id, sid, found),
                        ok |-> outcome.success])
                /\ IF outcome.success
                   THEN /\ subsFile' = ApproveUpdate(subsFile, task_id, sid, outcome.msg)
                        /\ last' = Resp("approve", 200, "paid", <<>>)
                   ELSE /\ last' = Resp("approve", 500, "payout_failed", <<>>)
                        /\ UNCHANGED subsFile
        /\ UNCHANGED <<NodeSide, nextSub, proc>>

\* reject_submission
RejectSubmission(task_id, sid) ==
    LET err == ReviewCheck(subsFile, task_id, sid)
    IN  /\ IF err # "ok"
           THEN /\ last' = Resp("reject", ReviewCode(err), err, <<>>)
                /\ UNCHANGED subsFile
           ELSE /\ subsFile' = RejectUpdate(subsFile, task_id, sid)
                /\ last' = Resp("reject", 200, "rejected", <<>>)
        /\ UNCHANGED <<NodeSide, nextSub, pays, proc>>

SubIdInputs == 1..MaxSubs

\* verify_with_grok answers only a request that passed validation, and
\* send_watt_payout only a call that is made
GrokAnswers(err) ==
    IF err = "ok" THEN Verdicts ELSE {[pass |-> FALSE, confidence |-> 0]}

PayoutAnswers(called) ==
    IF called THEN PayoutOutcomes ELSE {[kind |-> "none", success |-> FALSE, msg |-> ""]}

NextTasks ==
    \/ \E t \in TaskInputs, b \in SubmitInputs, found \in BOOLEAN :
          \E v \in GrokAnswers(SubmitValidate(b.result, b.wallet, b.len, found)) :
              \E o \in PayoutAnswers(AutoApproved(v)) :
                  SubmitTask(t, b.result, b.wallet, b.len, found, v, o)
    \/ \E t \in TaskInputs, sid \in SubIdInputs, found \in BOOLEAN :
          \E o \in PayoutAnswers(ReviewCheck(subsFile, t, sid) = "ok") :
              ApproveSubmission(t, sid, found, o)
    \/ \E t \in TaskInputs, sid \in SubIdInputs : RejectSubmission(t, sid)

SpecTasks == Init /\ [][NextTasks]_vars

\* ---- SpecTaskRace: one stored submission that is not paid, and every
\* handler thread serves one approve or reject request, step by step
ApproveLoad(p, task_id, sid, found) ==
    /\ Ready(p)
    /\ LET err == ReviewCheck(subsFile, task_id, sid)
           rec == [Begin(p, "approve") EXCEPT !.task = task_id, !.job = sid]
       IN  proc' = [proc EXCEPT ![p] =
                       IF err # "ok" THEN Finish(rec, ReviewCode(err), err)
                       ELSE [rec EXCEPT !.pc = "approve_pay", !.sd = subsFile,
                                        !.total = ApproveAmount(subsFile, task_id, sid, found)]]
    /\ UNCHANGED <<NodeSide, subsFile, nextSub, pays, last>>

ApprovePay(p, outcome) ==
    /\ proc[p].pc = "approve_pay"
    /\ Len(pays) < MaxPays
    /\ pays' = Append(pays,
           [job |-> proc[p].job,
            to |-> proc[p].sd[FindSubmission(proc[p].sd, proc[p].task, proc[p].job)].wallet,
            amount |-> proc[p].total, ok |-> outcome.success])
    /\ proc' = [proc EXCEPT ![p] =
                   IF outcome.success
                   THEN [@ EXCEPT !.pc = "approve_save", !.result = outcome.msg]
                   ELSE Finish(@, 500, "payout_failed")]
    /\ UNCHANGED <<NodeSide, subsFile, nextSub, last>>

ApproveSave(p) ==
    /\ proc[p].pc = "approve_save"
    /\ subsFile' = ApproveUpdate(proc[p].sd, proc[p].task, proc[p].job, proc[p].result)
    /\ proc' = [proc EXCEPT ![p] = Finish(@, 200, "paid")]
    /\ UNCHANGED <<NodeSide, nextSub, pays, last>>

RejectLoad(p, task_id, sid) ==
    /\ Ready(p)
    /\ LET err == ReviewCheck(subsFile, task_id, sid)
           rec == [Begin(p, "reject") EXCEPT !.task = task_id, !.job = sid]
       IN  proc' = [proc EXCEPT ![p] =
                       IF err # "ok" THEN Finish(rec, ReviewCode(err), err)
                       ELSE [rec EXCEPT !.pc = "reject_save", !.sd = subsFile]]
    /\ UNCHANGED <<NodeSide, subsFile, nextSub, pays, last>>

RejectSave(p) ==
    /\ proc[p].pc = "reject_save"
    /\ subsFile' = RejectUpdate(proc[p].sd, proc[p].task, proc[p].job)
    /\ proc' = [proc EXCEPT ![p] = Finish(@, 200, "rejected")]
    /\ UNCHANGED <<NodeSide, nextSub, pays, last>>

\* the stores submit_task leaves behind when it has not paid
RaceSubs ==
    {<<NewSubmission(1, 1, "W1", "r1", v, o)>> :
        v \in Verdicts, o \in {q \in PayoutOutcomes : ~q.success}}

InitTaskRace ==
    /\ nodesFile = EmptyNodes
    /\ jobsFile = EmptyJobs
    /\ now = 0
    /\ nextNode = 1
    /\ nextJob = 1
    /\ pays = <<>>
    /\ completions = 0
    /\ last = Resp("init", 0, "", <<>>)
    /\ proc = [p \in Procs |-> [IdleProc EXCEPT !.reqs = MaxReqs - 1]]
    /\ subsFile \in RaceSubs
    /\ nextSub = 2

NextTaskRace ==
    \E p \in Procs :
        \/ \E t \in TaskInputs, sid \in SubIdInputs, found \in BOOLEAN :
              ApproveLoad(p, t, sid, found)
        \/ \E o \in PayoutOutcomes : ApprovePay(p, o)
        \/ ApproveSave(p)
        \/ \E t \in TaskInputs, sid \in SubIdInputs : RejectLoad(p, t, sid)
        \/ RejectSave(p)

SpecTaskRace == InitTaskRace /\ [][NextTaskRace]_vars

\* =====================================================================
\* Properties
\* =====================================================================
JobIds == DOMAIN jobsFile.jobs
PayCount(log, j) == Cardinality({i \in 1..Len(log) : log[i].job = j})
CreditCount == LET RECURSIVE Sum(_)
                   Sum(S) == IF S = {} THEN 0
                             ELSE LET n == CHOOSE m \in S : TRUE
                                  IN  nodesFile[n].jobs_completed + Sum(S \ {n})
               IN  Sum(DOMAIN nodesFile)
Returned(p, op) == proc[p].pc = "done" /\ proc[p].op = op

\* C1 (SpecRace): of the claim_job requests that different registered nodes
\* made for one job and that have all returned, exactly one returned success,
\* the others returned 409, and the stored claimant is the node that was told
\* success.
C1_ExactlyOneClaimWins ==
    \A p, q \in Procs :
        (/\ p # q
         /\ Returned(p, "claim") /\ Returned(q, "claim")
         /\ proc[p].job = proc[q].job
         /\ proc[p].node # proc[q].node
         /\ proc[p].node \in DOMAIN nodesFile /\ proc[q].node \in DOMAIN nodesFile
         /\ proc[p].code = 200)
        => /\ proc[q].code = 409
           /\ jobsFile.jobs[proc[p].job].assigned_to = proc[p].node

\* C2 (Spec): over any sequence of requests served one at a time, the payout
\* is invoked at most once per job and the nodes are credited at most once
\* per job.
C2_PayAndCreditAtMostOncePerJob ==
    /\ \A j \in JobIds : PayCount(pays, j) <= 1
    /\ CreditCount <= Cardinality(JobIds)

C4_CompletesSerialize ==
    \A p, q \in Procs :
        (/\ p # q
         /\ Returned(p, "complete") /\ Returned(q, "complete")
         /\ proc[p].job = proc[q].job /\ proc[p].node = proc[q].node
         /\ proc[p].code = 200 /\ proc[q].code # 400)
        => /\ proc[q].code = 409
           /\ PayCount(pays, proc[p].job) <= 1
           /\ proc[p].node \in DOMAIN nodesFile =>
                 nodesFile[proc[p].node].jobs_completed = 1

\* C5 (Spec): for every stored job the three shares sum to total_payment.
C5_SharesSumToTotal ==
    \A j \in JobIds :
        jobsFile.jobs[j].node_reward + jobsFile.jobs[j].treasury_amount
            + jobsFile.jobs[j].burn_amount = jobsFile.jobs[j].total_payment

\* C6 (Spec): a successful get_node_jobs call expires every unclaimed pending
\* job whose deadline has passed, and no claim_job or complete_job on an
\* expired, never-claimed job succeeds.
C6_NextReadExpiresUnclaimed ==
    [][/\ \A n \in NodeIdInputs :
             (ListAvailable(n) /\ last'.code = 200) =>
                \A j \in JobIds :
                   (/\ jobsFile.jobs[j].status = "pending"
                    /\ jobsFile.jobs[j].assigned_to = NoneId
                    /\ now > jobsFile.jobs[j].expires_at)
                   => jobsFile'.jobs[j].status = "expired"
       /\ \A j \in JobIds :
             (jobsFile.jobs[j].status = "expired" /\ jobsFile.jobs[j].assigned_to = NoneId)
             => /\ \A n \in NodeIdInputs : ClaimJob(j, n) => last'.code # 200
                /\ \A n \in NodeIdInputs, r \in Results, ok \in BOOLEAN :
                      CompleteJob(j, n, r, ok) => last'.code # 200]_vars

\* C7 (Spec): expired and cancelled are terminal: from such a status the job
\* never becomes completed and no payout is made for it.
C7_ExpiredCancelledTerminal ==
    [][\A j \in JobIds :
          jobsFile.jobs[j].status \in {"expired", "cancelled"} =>
             /\ jobsFile'.jobs[j].status # "completed"
             /\ PayCount(pays', j) = PayCount(pays, j)]_vars

\* C8 (Spec): cancel_job turns pending into cancelled, leaves the status of a
\* job that is not pending unchanged, and cancelling twice equals cancelling
\* once.
C8_CancelOnlyPending ==
    [][\A j \in JobIdInputs :
          (CancelJob(j) /\ j \in JobIds) =>
             /\ jobsFile.jobs[j].status = "pending" => jobsFile'.jobs[j].status = "cancelled"
             /\ jobsFile.jobs[j].status # "pending" =>
                   jobsFile'.jobs[j].status = jobsFile.jobs[j].status
             /\ CancelUpdate(jobsFile', j) = jobsFile']_vars

\* C9 (SpecRace): of two register_node requests that carry the same stake
\* proof under different wallets, passed validation and stake verification
\* and have both returned, exactly one succeeded and the other got 409; and
\* no two stored nodes share a stake proof.
C9_OneRegistrationPerStake ==
    /\ \A p, q \in Procs :
          (/\ p # q
           /\ Returned(p, "register") /\ Returned(q, "register")
           /\ proc[p].stake = proc[q].stake /\ proc[p].stake # ""
           /\ proc[p].wallet # proc[q].wallet
           /\ proc[p].code = 200 /\ proc[q].code # 400)
          => proc[q].code = 409
    /\ \A m, n \in DOMAIN nodesFile :
          nodesFile[m].stake_tx = nodesFile[n].stake_tx => m = n

\* C10 (Spec): register_node creates a node (fresh id, active, zero counters)
\* only if the capabilities are non-empty and valid, the wallet is not
\* registered, the stake proof is unused and verify_stake said valid; when one
\* of these fails it answers 400 or 409; and every answer other than success
\* leaves the registry unchanged.
C10_RegisterPreconditions ==
    [][(last'.op = "register") =>
       \A r \in RegisterInputs, v \in BOOLEAN :
          Register(r.wallet, r.caps, r.stake, v) =>
             LET pre == /\ r.caps # {} /\ r.caps \subseteq VALID_CAPS
                        /\ \A n \in DOMAIN nodesFile : nodesFile[n].wallet # r.wallet
                        /\ \A n \in DOMAIN nodesFile : nodesFile[n].stake_tx # r.stake
                        /\ v
             IN  /\ (last'.code = 200) =>
                       /\ pre
                       /\ \E id \in (DOMAIN nodesFile') \ (DOMAIN nodesFile) :
                             /\ DOMAIN nodesFile' = (DOMAIN nodesFile) \cup {id}
                             /\ nodesFile'[id].status = "active"
                             /\ nodesFile'[id].wallet = r.wallet
                             /\ nodesFile'[id].capabilities = r.caps
                             /\ nodesFile'[id].stake_tx = r.stake
                             /\ nodesFile'[id].jobs_completed = 0
                             /\ nodesFile'[id].jobs_failed = 0
                             /\ nodesFile'[id].total_earned = 0
                       /\ \A n \in DOMAIN nodesFile : nodesFile'[n] = nodesFile[n]
                 /\ ~pre => last'.code \in {400, 409}
                 /\ (last'.code # 200) => nodesFile' = nodesFile]_vars

\* a second node has just been registered
C10_Witness ==
    /\ last.op = "register" /\ last.code = 200
    /\ Cardinality(DOMAIN nodesFile) = 2

\* the specification's reading of liveness and eligibility, spelled out on
\* the stored fields
Fresh(nd, n, t) ==
    /\ nd[n].last_heartbeat # NoTime
    /\ t - nd[n].last_heartbeat < 120
EligibleBySpec(nd, capability, t) ==
    {n \in DOMAIN nd : /\ nd[n].status = "active"
                       /\ Fresh(nd, n, t)
                       /\ capability \in nd[n].capabilities}

C12_CreateAtEveryInstant ==
    [][(last'.op = "create") =>
       \A ty \in JobTypes, total \in Payments :
          (CreateJob(ty, total) /\ EligibleBySpec(nodesFile, ty, now) # {}) =>
             /\ last'.err = "routed"
             /\ \E id \in (DOMAIN jobsFile'.jobs) \ JobIds :
                   /\ DOMAIN jobsFile'.jobs = JobIds \cup {id}
                   /\ jobsFile'.jobs[id].status = "pending"
                   /\ jobsFile'.jobs[id].assigned_to = NoneId
                   /\ jobsFile'.jobs[id].created_at = now
                   /\ jobsFile'.jobs[id].expires_at = now + 30]_vars

\* C13 (SpecLive): a registered node counts as live exactly when it has a
\* recorded heartbeat and that heartbeat is less than 120 s old; without a
\* recorded heartbeat it is never live, and at an age of 120 s or more it is
\* not live.
C13_LiveIffRecentHeartbeat ==
    \A n \in DOMAIN nodesFile :
        /\ is_node_active(nodesFile[n], now) <=> Fresh(nodesFile, n, now)
        /\ nodesFile[n].last_heartbeat = NoTime => ~is_node_active(nodesFile[n], now)
        /\ now - nodesFile[n].last_heartbeat >= 120 => ~is_node_active(nodesFile[n], now)

\* at t = 121 the registry holds a node without heartbeat and a node whose
\* heartbeat dates from t = 0, and create_job found neither of them live
C13_Witness ==
    /\ now = 121
    /\ last.op = "create" /\ last.err = "no_active_nodes"
    /\ \E n \in DOMAIN nodesFile : nodesFile[n].last_heartbeat = NoTime
    /\ \E n \in DOMAIN nodesFile :
          /\ nodesFile[n].last_heartbeat = 0
          /\ "scrape" \in nodesFile[n].capabilities
          /\ ~is_node_active(nodesFile[n], now)

\* C14 (SpecLive): get_active_nodes(capability) is exactly the set of nodes
\* that are active, have a heartbeat younger than 120 s at the moment of the
\* call and hold the capability; when only the clock moves, a node whose
\* heartbeat has become stale drops out although its record is unchanged; and
\* a successful node_heartbeat puts the node back in for its capabilities.
C14_EligibleExactlyActiveLiveCapable ==
    [][/\ \A c \in VALID_CAPS :
             get_active_nodes(nodesFile', c, now') = EligibleBySpec(nodesFile', c, now')
       /\ (nodesFile' = nodesFile) =>
             \A n \in DOMAIN nodesFile, c \in VALID_CAPS :
                (nodesFile[n].status = "active" /\ ~Fresh(nodesFile, n, now'))
                => n \notin get_active_nodes(nodesFile', c, now')
       /\ \A n \in NodeIdInputs :
             (Heartbeat(n) /\ last'.code = 200) =>
                \A c \in nodesFile[n].capabilities :
                   n \in get_active_nodes(nodesFile', c, now')]_vars

\* a node that had gone stale (heartbeat at 0, clock past 120) has just sent
\* a heartbeat and is eligible again
C14_Witness ==
    /\ last.op = "heartbeat" /\ last.code = 200
    /\ now >= 120
    /\ \E n \in DOMAIN nodesFile :
          /\ nodesFile[n].last_heartbeat = now
          /\ n \in get_active_nodes(nodesFile, "scrape", now)
    /\ \E m \in DOMAIN nodesFile :
          /\ nodesFile[m].status = "active"
          /\ nodesFile[m].last_heartbeat = 0
          /\ \A c \in VALID_CAPS : m \notin get_active_nodes(nodesFile, c, now)

\* C15 (Spec): in every reachable state, a job has a claimant if and only if
\* its status is claimed or completed.
C15_ClaimantIffClaimedOrCompleted ==
    \A j \in JobIds :
        (jobsFile.jobs[j].assigned_to # NoneId)
            <=> (jobsFile.jobs[j].status \in {"claimed", "completed"})

\* C16 (Spec): a successful claim_job(j, n) on a pending job leaves the job
\* with claimant n, status claimed and claimed_at stamped.
C16_ClaimSetsClaimed ==
    [][(last'.op = "claim") =>
       \A j \in JobIdInputs, n \in NodeIdInputs :
          (ClaimJob(j, n) /\ last'.code = 200) =>
             /\ jobsFile'.jobs[j].assigned_to = n
             /\ jobsFile'.jobs[j].status = "claimed"
             /\ jobsFile'.jobs[j].claimed_at = now]_vars

\* the steps of complete_job that come after its first save_jobs
AfterJobSaved == {"comp_load_nodes", "comp_save_nodes", "comp_pay",
                  "comp_load_paid", "comp_save_paid"}
AfterNodeSaved == {"comp_pay", "comp_load_paid", "comp_save_paid"}
Earned(n) == IF n \in DOMAIN nodesFile THEN nodesFile[n].total_earned ELSE 0
OkPays(j) == {i \in 1..Len(pays) : pays[i].job = j /\ pays[i].ok}

\* C17 (SpecCrash): within complete_job the job is saved as completed, with
\* its result, before the node's counters are written, and the counters are
\* written before the payout is called.  So the payout is only ever called
\* for a job recorded as completed whose claimant has been credited; a
\* handler that dies after its first save leaves the job completed; dying
\* before the payout call leaves that completion without a payout call; and
\* no job is recorded paid without a payout that succeeded.
C17_CompleteOrderedJobNodePay ==
    [][\A p \in Procs :
          LET j == proc[p].job
              n == proc[p].node
          IN  /\ (proc[p].pc \in AfterJobSaved /\ nodesFile' # nodesFile) =>
                    /\ jobsFile.jobs[j].status = "completed"
                    /\ jobsFile.jobs[j].result = proc[p].result
                    /\ pays' = pays
              /\ (proc[p].pc \in AfterJobSaved /\ pays' # pays) =>
                    /\ jobsFile.jobs[j].status = "completed"
                    /\ nodesFile[n].jobs_completed >= 1
                    /\ nodesFile[n].total_earned >= proc[p].total
                    /\ nodesFile' = nodesFile
              /\ (proc[p].pc \in AfterJobSaved) => jobsFile.jobs[j].status = "completed"
              /\ (proc[p].pc \in AfterNodeSaved) =>
                    /\ nodesFile[n].jobs_completed >= 1
                    /\ nodesFile[n].total_earned >= proc[p].total
              /\ (Crash(p) /\ proc[p].pc \in AfterJobSaved) =>
                    /\ jobsFile'.jobs[j].status = "completed"
                    /\ jobsFile'.jobs[j].result = proc[p].result
                    /\ proc[p].pc \in {"comp_load_nodes", "comp_save_nodes", "comp_pay"}
                          => PayCount(pays', j) < completions'
              /\ \A k \in DOMAIN jobsFile'.jobs :
                    jobsFile'.jobs[k].payout_status = "paid" =>
                       \E i \in 1..Len(pays') : pays'[i].job = k /\ pays'[i].ok]_vars

\* a complete_job handler died between crediting the node and calling the
\* payout: the job is completed, the node credited, nothing paid
C17_Witness ==
    \E p \in Procs :
        /\ proc[p].op = "complete" /\ proc[p].err = "crashed"
        /\ proc[p].job \in JobIds
        /\ jobsFile.jobs[proc[p].job].status = "completed"
        /\ jobsFile.jobs[proc[p].job].payout_status = "none"
        /\ Earned(proc[p].node) = 700
        /\ pays = <<>>

\* C18 (Spec): when the payout called by complete_job does not succeed, the
\* completion stands: the job is completed with the result stored, the node's
\* counters are credited, and the answer is success with the payout error.
C18_PayoutFailureKeepsCompletion ==
    [][(last'.op = "complete") =>
       \A j \in JobIdInputs, n \in NodeIdInputs, r \in Results :
          (/\ CompleteJob(j, n, r, FALSE)
           /\ CompleteCheck(jobsFile, j, n, r) = "ok"
           /\ n \in DOMAIN nodesFile /\ nodesFile[n].wallet # ""
           /\ jobsFile.jobs[j].node_reward > 0) =>
             /\ last'.code = 200 /\ last'.err = "payout_error"
             /\ jobsFile'.jobs[j].status = "completed"
             /\ jobsFile'.jobs[j].result = r
             /\ nodesFile'[n].jobs_completed = nodesFile[n].jobs_completed + 1
             /\ nodesFile'[n].total_earned =
                   nodesFile[n].total_earned + jobsFile.jobs[j].node_reward
             /\ Len(pays') = Len(pays) + 1 /\ ~pays'[Len(pays')].ok]_vars

\* complete_job has answered success with a payout error; the job is
\* completed and the node credited
C18_Witness ==
    /\ last.op = "complete" /\ last.code = 200 /\ last.err = "payout_error"
    /\ \E j \in JobIds :
          /\ jobsFile.jobs[j].status = "completed"
          /\ jobsFile.jobs[j].result = "r1"
          /\ OkPays(j) = {}
    /\ \E n \in DOMAIN nodesFile :
          nodesFile[n].jobs_completed = 1 /\ nodesFile[n].total_earned = 700

\* C19 (Spec): a job for which the payout was attempted and never succeeded
\* carries, in its stored record, a settlement outcome that records the
\* failure.
C19_FailedPayoutRecordedOnJob ==
    \A j \in JobIds :
        (PayCount(pays, j) > 0 /\ OkPays(j) = {})
        => jobsFile.jobs[j].payout_status \notin {"none", "paid"}

\* C20 (Spec): every successful complete_job(j, n) invokes the payout exactly
\* once, to the wallet of node n, for the node_reward stored at creation (700
\* when total_payment is 1000).
C20_SuccessfulCompletePaysOnce ==
    [][(last'.op = "complete" /\ last'.code = 200) =>
       \A j \in JobIdInputs, n \in NodeIdInputs, r \in Results, ok \in BOOLEAN :
          CompleteJob(j, n, r, ok) =>
             /\ Len(pays') = Len(pays) + 1
             /\ n \in DOMAIN nodesFile
             /\ pays'[Len(pays')].job = j
             /\ pays'[Len(pays')].to = nodesFile[n].wallet
             /\ pays'[Len(pays')].amount = jobsFile.jobs[j].node_reward
             /\ jobsFile.jobs[j].total_payment = 1000 => pays'[Len(pays')].amount = 700]_vars

\* C20 as the code has it (Spec): a successful complete_job(j, n) invokes the
\* payout exactly once, to the wallet of node n and for the stored
\* node_reward (700 when total_payment is 1000), when n is a registered node
\* with a wallet and the node_reward is positive; otherwise it invokes the
\* payout not at all.
C20_SuccessfulCompletePaysOnceIfDue ==
    [][(last'.op = "complete" /\ last'.code = 200) =>
       \A j \in JobIdInputs, n \in NodeIdInputs, r \in Results, ok \in BOOLEAN :
          CompleteJob(j, n, r, ok) =>
             IF /\ n \in DOMAIN nodesFile /\ nodesFile[n].wallet # ""
                /\ jobsFile.jobs[j].node_reward > 0
             THEN /\ Len(pays') = Len(pays) + 1
                  /\ SubSeq(pays', 1, Len(pays)) = pays
                  /\ pays'[Len(pays')].job = j
                  /\ pays'[Len(pays')].to = nodesFile[n].wallet
                  /\ pays'[Len(pays')].amount = jobsFile.jobs[j].node_reward
                  /\ jobsFile.jobs[j].total_payment = 1000 =>
                        pays'[Len(pays')].amount = 700
             ELSE pays' = pays]_vars

\* the first complete_job of a 1000-unit job by its registered claimant has
\* succeeded and the payout log holds the single call (w1, 700)
C20_Witness ==
    /\ last.op = "complete" /\ last.code = 200
    /\ completions = 1
    /\ Len(pays) = 1
    /\ pays[1].to = "w1" /\ pays[1].amount = 700
    /\ \E n \in DOMAIN nodesFile : nodesFile[n].wallet = "w1"

Quiet == \A p \in Procs : proc[p].pc \in {"idle", "done"}
CompletedBy(n) ==
    {j \in JobIds : jobsFile.jobs[j].status = "completed" /\ jobsFile.jobs[j].assigned_to = n}
RewardSum(S) ==
    LET RECURSIVE Sum(_)
        Sum(T) == IF T = {} THEN 0
                  ELSE LET j == CHOOSE k \in T : TRUE
                       IN  jobsFile.jobs[j].node_reward + Sum(T \ {j})
    IN  Sum(S)

\* C21 (SpecStore): whenever interleaved node_heartbeat, get_node_jobs,
\* register_node and complete_job handlers have all returned, each node's
\* jobs_completed is the number of completed jobs it holds and its
\* total_earned is the sum of their node_reward.
C21_CountersMatchCompletedJobs ==
    (Quiet /\ \A p \in Procs :
                 proc[p].op \in {"none", "heartbeat", "list", "register", "complete"})
    => \A n \in DOMAIN nodesFile :
          /\ nodesFile[n].jobs_completed = Cardinality(CompletedBy(n))
          /\ nodesFile[n].total_earned = RewardSum(CompletedBy(n))

\* C22 (SpecStore): once register_node or create_job has returned success,
\* the node or job it created is in its store, whatever other handlers save
\* afterwards.
C22_CreatedRecordsStay ==
    \A p \in Procs :
        /\ (Returned(p, "register") /\ proc[p].code = 200) =>
              /\ proc[p].node \in DOMAIN nodesFile
              /\ nodesFile[proc[p].node].wallet = proc[p].wallet
        /\ (Returned(p, "create") /\ proc[p].err = "routed") =>
              proc[p].job \in DOMAIN jobsFile.jobs

\* C23 (Spec): a claim_job, complete_job, node_heartbeat or get_node_jobs call
\* that answers 400, 403, 404 or 409 leaves jobs.json and nodes.json exactly
\* as they were.
C23_ErrorsLeaveStoresUnchanged ==
    [][(/\ last'.op \in {"claim", "complete", "heartbeat", "list"}
        /\ last'.code \in {400, 403, 404, 409})
       => (jobsFile' = jobsFile /\ nodesFile' = nodesFile)]_vars

\* a complete_job by a node that does not hold the job was refused while a
\* claimed job and its claimant are in the stores
C23_Witness ==
    /\ last.op = "complete" /\ last.code = 403
    /\ \E j \in JobIds : jobsFile.jobs[j].assigned_to # NoneId
    /\ Cardinality(DOMAIN nodesFile) = 2

\* C24 (SpecPage): a successful get_node_jobs(n) returns at most 5 jobs, and
\* every returned job is pending, not past its deadline, of a type among n's
\* capabilities, and unclaimed or claimed by n.
C24_ListedJobsAreClaimable ==
    [][\A n \in NodeIdInputs :
          (ListAvailable(n) /\ last'.code = 200) =>
             /\ Len(last'.jobs) <= 5
             /\ \A i \in 1..Len(last'.jobs) :
                   LET job == jobsFile'.jobs[last'.jobs[i]]
                   IN  /\ job.status = "pending"
                       /\ now <= job.expires_at
                       /\ job.type \in nodesFile[n].capabilities
                       /\ job.assigned_to \in {NoneId, n}]_vars

\* a full page has been returned while a sixth job would also have
\* qualified, and a job held by the other node was left out
C24_Witness ==
    /\ last.op = "list" /\ last.code = 200
    /\ Len(last.jobs) = 5
    /\ Cardinality({j \in JobIds : /\ jobsFile.jobs[j].status = "pending"
                                   /\ jobsFile.jobs[j].assigned_to \in {NoneId, 1}}) = 6
    /\ now = 20

\* C25 (Spec): after a successful get_node_jobs call no job past its deadline
\* is still pending or claimed, whatever its type and whether or not it has a
\* claimant; and a second call at the same instant changes no job status.
C25_SweepExpiresEveryOverdueJob ==
    [][\A n \in NodeIdInputs :
          (ListAvailable(n) /\ last'.code = 200) =>
             /\ \A j \in JobIds :
                   now > jobsFile.jobs[j].expires_at =>
                      jobsFile'.jobs[j].status \notin {"pending", "claimed"}
             /\ \A m \in DOMAIN nodesFile :
                   nodesFile[m].status = "active" =>
                      SweepUpdate(jobsFile', nodesFile[m].capabilities, now).jobs
                         = jobsFile'.jobs]_vars

\* C29 (Spec): with requests served one at a time, a job that has a claimant
\* keeps that claimant in every later state, and every claim_job on it by a
\* different node is answered 409.
C29_ClaimantIsStable ==
    [][\A j \in JobIds :
          jobsFile.jobs[j].assigned_to # NoneId =>
             /\ jobsFile'.jobs[j].assigned_to = jobsFile.jobs[j].assigned_to
             /\ \A n \in NodeIdInputs \ {NoneId, jobsFile.jobs[j].assigned_to} :
                   ClaimJob(j, n) => last'.code = 409]_vars

\* node 2 has been refused a job that node 1 holds
C29_Witness ==
    /\ last.op = "claim" /\ last.code = 409
    /\ last.err = "job assigned to another node"
    /\ \E j \in JobIds : jobsFile.jobs[j].assigned_to = 1
    /\ 2 \in DOMAIN nodesFile

\* C30 (SpecPage): claim_job by the node that already holds a pending job,
\* within the job's deadline, answers success and leaves the job record
\* identical.
C30_ReclaimIsNoOp ==
    [][\A j \in JobIdInputs, n \in NodeIdInputs :
          (/\ ClaimJob(j, n)
           /\ j \in JobIds /\ n # NoneId
           /\ jobsFile.jobs[j].status = "pending"
           /\ jobsFile.jobs[j].assigned_to = n
           /\ now <= jobsFile.jobs[j].expires_at) =>
             /\ last'.code = 200
             /\ jobsFile'.jobs[j] = jobsFile.jobs[j]]_vars

\* ---------------------------------------------------------------------
\* C26: the status submit_task stores is decided by the oracle verdict and
\* the payout outcome alone: pass with confidence >= 0.8 makes exactly one
\* payout call and stores paid when it succeeds, approved when it is queued
\* for manual handling, payout_failed when the rail fails; pass below 0.8
\* stores pending_review and a failing verdict stores rejected, both
\* without a payout call.
VerdictStatus(v, o) ==
    IF v.pass /\ v.confidence >= AUTO_APPROVE_CONFIDENCE
    THEN CASE o.kind = "sent" -> "paid"
           [] o.kind = "queued" -> "approved"
           [] OTHER -> "payout_failed"
    ELSE IF v.pass THEN "pending_review" ELSE "rejected"

VerdictPays(v) ==
    IF v.pass /\ v.confidence >= AUTO_APPROVE_CONFIDENCE THEN 1 ELSE 0

C26_StatusFollowsVerdictAndPayout ==
    [][(last'.op = "submit" /\ last'.code = 200) =>
          \A t \in TaskInputs, b \in SubmitInputs, v \in Verdicts :
             \A o \in PayoutAnswers(VerdictPays(v) = 1) :
                SubmitTask(t, b.result, b.wallet, b.len, TRUE, v, o)
                => /\ Len(subsFile') = Len(subsFile) + 1
                   /\ subsFile'[Len(subsFile')].status = VerdictStatus(v, o)
                   /\ last'.err = VerdictStatus(v, o)
                   /\ Len(pays') = Len(pays) + VerdictPays(v)
                   /\ VerdictPays(v) = 1
                         => pays'[Len(pays')].job = subsFile'[Len(subsFile')].id]_vars

C26_Witness ==
    /\ last.op = "submit"
    /\ Len(subsFile) = MaxSubs
    /\ Len(pays) = MaxSubs
    /\ subsFile[1].status = "paid"
    /\ subsFile[1].grok_review.confidence = AUTO_APPROVE_CONFIDENCE
    /\ subsFile[MaxSubs].status = "payout_failed"

\* ---------------------------------------------------------------------
\* C27: a paid submission is immutable: no step changes any field of it or
\* makes a payout call for it, and every approve or reject of it answers
\* already_paid.
PaidSubs == {i \in 1..Len(subsFile) : subsFile[i].status = "paid"}

NewPays == {k \in 1..Len(pays') : k > Len(pays)}

C27_PaidIsImmutable ==
    [][\A i \in PaidSubs :
          /\ Len(subsFile') >= i
          /\ subsFile'[i] = subsFile[i]
          /\ \A k \in NewPays : pays'[k].job # subsFile[i].id
          /\ last'.op = "approve" =>
                \A found \in BOOLEAN, o \in PayoutOutcomes \cup PayoutAnswers(FALSE) :
                   ApproveSubmission(subsFile[i].task_id, subsFile[i].id, found, o)
                   => last'.err = "already_paid" /\ last'.code = 400
          /\ last'.op = "reject" =>
                (RejectSubmission(subsFile[i].task_id, subsFile[i].id)
                 => last'.err = "already_paid" /\ last'.code = 400)]_vars

C27_Witness ==
    /\ last.op = "approve"
    /\ last.err = "already_paid"
    /\ PaidSubs # {}
    /\ Len(pays) = 1

\* ---------------------------------------------------------------------
\* C28: two approve requests for one unpaid submission, interleaved in any
\* order, make at most one payout call for it.  Checked here in the form
\* the retry rule leaves open: no payout call for a submission follows a
\* payout call for it that succeeded.
C28_NoPayoutAfterPaid ==
    \A j \in 1..Len(pays), k \in 1..Len(pays) :
        (j < k /\ pays[j].job = pays[k].job) => ~pays[j].ok

\* C31 (Spec): node_heartbeat on a registered node answers success, sets that
\* node's last_heartbeat to now and leaves its wallet, capabilities, stake,
\* status and counters, every other node and the job store as they were; on
\* an unknown node id it answers 404 and changes nothing; a call repeated at
\* the same instant succeeds again.
C31_HeartbeatTouchesOnlyTheTimestamp ==
    [][\A n \in NodeIdInputs \ {NoneId} :
          Heartbeat(n) =>
             /\ jobsFile' = jobsFile
             /\ DOMAIN nodesFile' = DOMAIN nodesFile
             /\ \A m \in DOMAIN nodesFile \ {n} : nodesFile'[m] = nodesFile[m]
             /\ IF n \in DOMAIN nodesFile
                THEN /\ last'.code = 200
                     /\ nodesFile'[n].last_heartbeat = now
                     /\ nodesFile'[n].status = nodesFile[n].status
                     /\ nodesFile'[n].capabilities = nodesFile[n].capabilities
                     /\ nodesFile'[n].wallet = nodesFile[n].wallet
                     /\ nodesFile'[n].stake_tx = nodesFile[n].stake_tx
                     /\ nodesFile'[n].jobs_completed = nodesFile[n].jobs_completed
                     /\ nodesFile'[n].jobs_failed = nodesFile[n].jobs_failed
                     /\ nodesFile'[n].total_earned = nodesFile[n].total_earned
                ELSE last'.code = 404 /\ last'.err = "node not found"]_vars

\* node 2 has sent a heartbeat at t = 31 while node 1, which has completed a
\* job, keeps its older timestamp
C31_Witness ==
    /\ last.op = "heartbeat" /\ last.code = 200
    /\ now > 0
    /\ 1 \in DOMAIN nodesFile /\ 2 \in DOMAIN nodesFile
    /\ nodesFile[2].last_heartbeat = now
    /\ nodesFile[1].last_heartbeat < now
    /\ nodesFile[1].jobs_completed = 1

\* C32 (Spec): a job is created without a claimant; its claimant is written
\* only by a successful claim_job of the node it names; its status becomes
\* completed only in a successful complete_job by its claimant; and a
\* well-formed complete_job by any other node is answered 403 "job not
\* assigned to this node".  Hence a completed job was claimed before by the
\* node that completed it, and a never-claimed job is completed by nobody.
C32_CompletedOnlyByClaimant ==
    [][/\ \A j \in DOMAIN jobsFile'.jobs \ JobIds :
             jobsFile'.jobs[j].assigned_to = NoneId
       /\ \A j \in JobIds :
             /\ jobsFile'.jobs[j].assigned_to # jobsFile.jobs[j].assigned_to =>
                   /\ last'.op = "claim" /\ last'.code = 200
                   /\ ClaimJob(j, jobsFile'.jobs[j].assigned_to)
             /\ (/\ jobsFile'.jobs[j].status = "completed"
                 /\ jobsFile.jobs[j].status # "completed") =>
                   /\ last'.op = "complete" /\ last'.code = 200
                   /\ jobsFile.jobs[j].assigned_to # NoneId
                   /\ \E r \in Results, ok \in BOOLEAN :
                         CompleteJob(j, jobsFile.jobs[j].assigned_to, r, ok)
             /\ last'.op = "complete" =>
                   \A n \in NodeIdInputs \ {NoneId, jobsFile.jobs[j].assigned_to},
                      r \in Results \ {"None"}, ok \in BOOLEAN :
                      CompleteJob(j, n, r, ok) =>
                         /\ last'.code = 403
                         /\ last'.err = "job not assigned to this node"
                         /\ jobsFile' = jobsFile]_vars

\* node 2 has been refused the completion of a job that node 1 claimed and
\* completed
C32_Witness ==
    /\ last.op = "complete" /\ last.code = 403
    /\ \E j \in JobIds : /\ jobsFile.jobs[j].status = "completed"
                         /\ jobsFile.jobs[j].assigned_to = 1
    /\ 2 \in DOMAIN nodesFile

\* C33 (Spec): a job record stays in the store and no claim_job,
\* complete_job, cancel_job or get_node_jobs call (nor any other step)
\* changes its expires_at, created_at, type, total_payment, node_reward,
\* treasury_amount or burn_amount.
C33_CreationFieldsAreFixed ==
    [][\A j \in JobIds :
          /\ j \in DOMAIN jobsFile'.jobs
          /\ jobsFile'.jobs[j].expires_at = jobsFile.jobs[j].expires_at
          /\ jobsFile'.jobs[j].created_at = jobsFile.jobs[j].created_at
          /\ jobsFile'.jobs[j].type = jobsFile.jobs[j].type
          /\ jobsFile'.jobs[j].total_payment = jobsFile.jobs[j].total_payment
          /\ jobsFile'.jobs[j].node_reward = jobsFile.jobs[j].node_reward
          /\ jobsFile'.jobs[j].treasury_amount = jobsFile.jobs[j].treasury_amount
          /\ jobsFile'.jobs[j].burn_amount = jobsFile.jobs[j].burn_amount]_vars

\* a job created at t = 0 was claimed at t = 31 and then completed and
\* cancelled, and still carries its deadline of 30
C33_Witness ==
    /\ last.op = "cancel"
    /\ \E j \in JobIds : /\ jobsFile.jobs[j].status = "cancelled"
                         /\ jobsFile.jobs[j].claimed_at > jobsFile.jobs[j].expires_at
                         /\ jobsFile.jobs[j].completed_at # NoTime
                         /\ jobsFile.jobs[j].expires_at = JOB_TIMEOUT

\* C34 (SpecWait): every started wait_for_job_result returns; it returns
\* success, with the stored result and claimant, only from a load that found
\* the job completed while the loop was within its timeout; it returns the
\* timeout error only once the timeout has elapsed; and no step of it
\* changes the job store.
Waiting(p) == proc[p].op = "wait" /\ proc[p].pc # "done"

WaitReturned(p, err) == proc[p].op = "wait" /\ proc[p].pc = "done" /\ proc[p].err = err

C34_WaitTerminates ==
    /\ [][\A p \in Procs :
             /\ (Waiting(p) /\ proc'[p] # proc[p]) => jobsFile' = jobsFile
             /\ (Waiting(p) /\ WaitReturned(p, "success")') =>
                   /\ proc[p].job \in JobIds
                   /\ jobsFile.jobs[proc[p].job].status = "completed"
                   /\ proc[p].elapsed < proc[p].timeout * WaitPollsPerSecond
                   /\ proc'[p].result = jobsFile.jobs[proc[p].job].result
                   /\ proc'[p].node = jobsFile.jobs[proc[p].job].assigned_to
             /\ (Waiting(p) /\ WaitReturned(p, "timeout")') =>
                   /\ proc[p].elapsed >= proc[p].timeout * WaitPollsPerSecond
                   /\ now >= proc[p].t + proc[p].timeout]_vars
    /\ \A p \in Procs : Waiting(p) ~> (proc[p].pc = "done")

\* one producer got the result of the job node 1 completed, the other ran
\* into its timeout
C34_Witness ==
    \E p \in Procs, q \in Procs :
        /\ WaitReturned(p, "success") /\ proc[p].result = "r1" /\ proc[p].node = 1
        /\ proc[p].elapsed > 0
        /\ WaitReturned(q, "timeout")

\* C35 (Spec): every successful claim_job is made by a node that, at the
\* time of the claim, is registered, has status active, has a live heartbeat
\* and lists the job's type among its capabilities.
C35_ClaimantIsEligible ==
    [][\A j \in JobIdInputs, n \in NodeIdInputs :
          (ClaimJob(j, n) /\ last'.code = 200) =>
             n \in EligibleBySpec(nodesFile, jobsFile.jobs[j].type, now)]_vars

\* C36 (Spec): no claim_job and no complete_job succeeds at a time later
\* than the job's expires_at, whether or not get_node_jobs has swept since.
C36_NoSuccessAfterDeadline ==
    [][\A j \in JobIdInputs, n \in NodeIdInputs :
          /\ (ClaimJob(j, n) /\ last'.code = 200) =>
                now <= jobsFile.jobs[j].expires_at
          /\ \A r \in Results, ok \in BOOLEAN :
                (CompleteJob(j, n, r, ok) /\ last'.code = 200) =>
                   now <= jobsFile.jobs[j].expires_at]_vars

\* C37 (SpecSweep): in every state of the job store, under any interleaving
\* of create_job, get_node_jobs, claim_job, complete_job and cancel_job, a
\* job id is in the pending list exactly when a record with that id exists
\* and its status is pending.
C37_PendingIndexMatchesStatus ==
    /\ \A i \in 1..Len(jobsFile.pending) :
          /\ jobsFile.pending[i] \in JobIds
          /\ jobsFile.jobs[jobsFile.pending[i]].status = "pending"
    /\ \A j \in JobIds :
          jobsFile.jobs[j].status = "pending" => InSeq(j, jobsFile.pending)

\* a get_node_jobs sweep and a complete_job that both loaded the pending
\* job have both saved: the job ended expired although complete_job
\* answered success
C37_Witness ==
    /\ Quiet
    /\ \E p \in Procs : Returned(p, "complete") /\ proc[p].code = 200
    /\ \E p \in Procs : Returned(p, "list") /\ proc[p].code = 200
    /\ \E j \in JobIds : jobsFile.jobs[j].status = "expired"
    /\ jobsFile.pending = <<>>

\* C38 (Spec): a successful get_node_jobs, and a successful complete_job by
\* a registered node, set that node's last_heartbeat to now, so that the node
\* is eligible for its capabilities at every instant less than
\* HEARTBEAT_TIMEOUT later without a node_heartbeat call; a get_node_jobs
\* call that is refused leaves the registry as it was.
StaysEligible(nd, n, t) ==
    \A d \in 0..(HEARTBEAT_TIMEOUT - 1) :
        \A c \in nd[n].capabilities : n \in EligibleBySpec(nd, c, t + d)

C38_PollAndCompleteRenewHeartbeat ==
    [][\A n \in NodeIdInputs :
          /\ last'.op = "list" =>
                (ListAvailable(n) =>
                    IF last'.code = 200
                    THEN /\ nodesFile'[n].last_heartbeat = now
                         /\ StaysEligible(nodesFile', n, now)
                    ELSE nodesFile' = nodesFile)
          /\ last'.op = "complete" =>
                \A j \in JobIdInputs, r \in Results, ok \in BOOLEAN :
                   (CompleteJob(j, n, r, ok) /\ last'.code = 200 /\ n \in DOMAIN nodesFile) =>
                      /\ nodesFile'[n].last_heartbeat = now
                      /\ StaysEligible(nodesFile', n, now)]_vars

\* node 1 registered at t = 0 and sent no heartbeat; its complete_job at
\* t = 31 renewed its timestamp
C38_Witness ==
    /\ last.op = "complete" /\ last.code = 200
    /\ now > 0
    /\ \E j \in JobIds : /\ jobsFile.jobs[j].status = "completed"
                         /\ jobsFile.jobs[j].assigned_to = 1
                         /\ jobsFile.jobs[j].claimed_at = 0
    /\ 1 \in DOMAIN nodesFile
    /\ nodesFile[1].last_heartbeat = now

\* C39 (SpecTasks): a submission whose status is rejected, by the oracle
\* verdict or by reject_submission, is never paid afterwards: no later step
\* makes a payout call for it or stores it as paid.
RejectedSubs == {i \in 1..Len(subsFile) : subsFile[i].status = "rejected"}

C39_RejectedIsNeverPaid ==
    [][\A i \in RejectedSubs :
          /\ subsFile'[i].status # "paid"
          /\ \A k \in NewPays : pays'[k].job # subsFile[i].id]_vars

====
